---- MODULE Spec2Model ----
(***************************************************************************)
(* Smithy: a Minecraft region file (anvil.rs) exposed as a FUSE            *)
(* filesystem (smithy_fs.rs).                                              *)
(*                                                                         *)
(* Conventions.  Option<T> is a sequence: None is << >>, Some(v) is <<v>>.  *)
(* Rust slices and bit vectors are 0-based; they are held in TLA+          *)
(* sequences, so element i of the source is element i + 1 here.  A string  *)
(* is a sequence of characters, each character a one-character string      *)
(* (or a multi-byte character, see Utf8Len).                               *)
(***************************************************************************)
EXTENDS Integers, Sequences, FiniteSets, TLC

VARIABLES
    region,     \* RegionFile: headers, chunk_data, occupied_sectors, dirty_sectors
    file,       \* the backing file's bytes: location table, timestamp table, payload
    last,       \* the operation that ran last, with its arguments and its reply
    steps,      \* number of operations run so far
    arg,        \* the argument of the codec function under check
    ret,        \* what the codec function has returned so far (None before the call)
    fs,         \* SmithyFS without its region (held in region); None while nothing is mounted
    issued      \* history: every InoSet the ino allocator has handed out, in order

vars == <<region, file, last, steps, arg, ret, fs, issued>>

(***************************************************************************)
(* Bounds of the model.                                                    *)
(***************************************************************************)
\* Bytes per sector.  The format's sector is 0x1000 bytes; the model keeps
\* every size of the engine relative to it and checks with short sectors.
SECTOR_LEN == 8
\* Longest run of operations explored in the region engine's specification.
MaxSteps == 4
\* Bits of a location entry's sector offset.  The format keeps the offset in
\* 24 bits; the model keeps the engine's sector ceiling relative to the
\* width of the field and checks with a narrow field.
OFFSET_BITS == 9

(***************************************************************************)
(* Program constants (anvil.rs).                                           *)
(***************************************************************************)
HEADER_SECTORS == 2
MAX_CHUNK_LEN == SECTOR_LEN * 254
MAX_SECTORS == (2 ^ OFFSET_BITS) - 1 - HEADER_SECTORS

None == << >>
Some(v) == <<v>>

Min(a, b) == IF a < b THEN a ELSE b
div_ceil(a, b) == (a + b - 1) \div b
Zeros(n) == [i \in 1..n |-> 0]

\* (x & 31) | ((z & 31) << 5)
coords_to_idx(x, z) == (x % 32) + ((z % 32) * 32)
idx_to_coords(idx) == <<idx % 32, (idx \div 32) % 32>>

\* The header table has 32 * 32 slots.  The model's inputs address the slots
\* of Coords only; every other slot stays as parsed from four zero bytes
\* (address None, mtime 0) and is left out of the tables.
Coords == {<<3, 5>>, <<0, 0>>}
Slots == {coords_to_idx(c[1], c[2]) : c \in Coords}

\* Big-endian u32 at byte `offset` of `raw`.
read_big_endian(raw, offset) ==
    raw[offset + 1] * (2 ^ 24) + raw[offset + 2] * (2 ^ 16)
        + raw[offset + 3] * (2 ^ 8) + raw[offset + 4]

\* The four bytes ((v >> 24) & 0xff, (v >> 16) & 0xff, (v >> 8) & 0xff, v & 0xff).
be_bytes(v) ==
    << (v \div (2 ^ 24)) % 256, (v \div (2 ^ 16)) % 256, (v \div (2 ^ 8)) % 256, v % 256 >>

(***************************************************************************)
(* CompressionType                                                         *)
(***************************************************************************)
GZip == [tag |-> "GZip", id |-> 0]
Zlib == [tag |-> "Zlib", id |-> 0]
NoCompression == [tag |-> "None", id |-> 0]
LZ4 == [tag |-> "LZ4", id |-> 0]
Zstd == [tag |-> "Zstd", id |-> 0]
Unknown(id) == [tag |-> "Unknown", id |-> id]

decode(id) ==
    CASE id = 1 -> GZip
      [] id = 2 -> Zlib
      [] id = 3 -> NoCompression
      [] id = 4 -> LZ4
      [] id = 53 -> Zstd
      [] OTHER -> Unknown(id)

encode_gzip_as_zlib(ct) ==
    CASE ct.tag = "GZip" -> 2
      [] ct.tag = "Zlib" -> 2
      [] ct.tag = "None" -> 3
      [] ct.tag = "LZ4" -> 4
      [] ct.tag = "Zstd" -> 53
      [] OTHER -> ct.id

encode(ct) ==
    CASE ct.tag = "GZip" -> 1
      [] ct.tag = "Zlib" -> 2
      [] ct.tag = "None" -> 3
      [] ct.tag = "LZ4" -> 4
      [] ct.tag = "Zstd" -> 53
      [] OTHER -> ct.id

(***************************************************************************)
(* ChunkInternalMeta, ChunkHeader                                          *)
(***************************************************************************)
ChunkInternalMeta_LEN == 5

ChunkInternalMeta_read(raw) ==
    [length |-> read_big_endian(raw, 0), compression_type |-> decode(raw[5])]

ChunkInternalMeta_write(meta) ==
    be_bytes(meta.length) \o <<encode(meta.compression_type)>>

ChunkHeader_new(offset, len, mtime, sector_count) ==
    [address |-> IF offset >= 2 /\ len > 0 /\ (offset + len - 2) <= sector_count
                 THEN Some([offset |-> offset, len |-> len])
                 ELSE None,
     mtime |-> mtime]

valid(header) == header.address # None

\* SystemTime is [secs, nanos] relative to the Unix epoch; a time before the
\* epoch has secs < 0.  set_mtime keeps the whole seconds.
set_mtime(header, time) ==
    [header EXCEPT !.mtime = IF time.secs >= 0 THEN time.secs ELSE 0]

header_mtime(header) == [secs |-> header.mtime, nanos |-> 0]

(***************************************************************************)
(* Bit vectors and byte vectors                                            *)
(***************************************************************************)
false_bitvec(len) == [i \in 1..len |-> FALSE]

\* bits[start..end].fill(value)
fill(bits, start, end, value) ==
    [i \in 1..Len(bits) |-> IF start < i /\ i <= end THEN value ELSE bits[i]]

\* v.resize(new_len, value)
resize(v, new_len, value) ==
    [i \in 1..new_len |-> IF i <= Len(v) THEN v[i] ELSE value]

\* bits[start..end].first_zero() / first_one(): offset from `start`, or None.
first_zero(bits, start, end) ==
    LET hits == {i \in start..(end - 1) : ~bits[i + 1]}
    IN  IF hits = {} THEN None
        ELSE Some((CHOOSE m \in hits : \A k \in hits : m <= k) - start)

first_one(bits, start, end) ==
    LET hits == {i \in start..(end - 1) : bits[i + 1]}
    IN  IF hits = {} THEN None
        ELSE Some((CHOOSE m \in hits : \A k \in hits : m <= k) - start)

\* v[start..start + Len(src)].copy_from_slice(src)
copy_from_slice(v, start, src) ==
    [i \in 1..Len(v) |->
        IF start < i /\ i <= start + Len(src) THEN src[i - start] ELSE v[i]]

\* &v[start..end]
slice(v, start, end) == SubSeq(v, start + 1, end)

(***************************************************************************)
(* RegionFile (anvil.rs)                                                   *)
(***************************************************************************)
lookup_header(r, chunk_x, chunk_z) == r.headers[coords_to_idx(chunk_x, chunk_z)]

\* Some([x, z, mtime, compression_type, data]) or None.
lookup_chunk(r, chunk_x, chunk_z) ==
    LET header == lookup_header(r, chunk_x, chunk_z)
    IN  IF header.address = None THEN None
        ELSE
            LET addr == header.address[1]
                start == (addr.offset - HEADER_SECTORS) * SECTOR_LEN
                len == addr.len * SECTOR_LEN
                chunk_data == slice(r.chunk_data, start, start + len)
                meta == ChunkInternalMeta_read(chunk_data)
            IN  Some([x |-> chunk_x % 32,
                      z |-> chunk_z % 32,
                      mtime |-> header_mtime(header),
                      compression_type |-> meta.compression_type,
                      data |-> slice(chunk_data, 5, 5 + (meta.length - 1))])

\* free_chunk forgetting to clear the run's bits.
free_chunk_keeps_bits(r, chunk_x, chunk_z) ==
    [r EXCEPT !.headers[coords_to_idx(chunk_x, chunk_z)].address = None]

\* free_chunk clearing the run's bits but leaving the address in the header.
free_chunk_keeps_header(r, chunk_x, chunk_z) ==
    LET idx == coords_to_idx(chunk_x, chunk_z)
        header == r.headers[idx]
    IN  IF header.address = None THEN r
        ELSE
            LET addr == header.address[1]
                start == addr.offset - HEADER_SECTORS
                end == Min((addr.offset + addr.len) - HEADER_SECTORS,
                           Len(r.occupied_sectors))
            IN  [r EXCEPT
                    !.occupied_sectors =
                        IF start < end THEN fill(@, start, end, FALSE) ELSE @]

\* free_chunk dropping the free sectors at the end of the bitmap.
free_chunk_shrinks(r, chunk_x, chunk_z) ==
    LET idx == coords_to_idx(chunk_x, chunk_z)
        header == r.headers[idx]
        taken == [r EXCEPT !.headers[idx].address = None]
    IN  IF header.address = None THEN taken
        ELSE
            LET addr == header.address[1]
                start == addr.offset - HEADER_SECTORS
                end == Min(addr.offset + addr.len - HEADER_SECTORS,
                           Len(r.occupied_sectors))
                bits == IF start < end THEN fill(r.occupied_sectors, start, end, FALSE)
                        ELSE r.occupied_sectors
                used == {i \in 1..Len(bits) : bits[i]}
                keep == IF used = {} THEN 0 ELSE CHOOSE m \in used : \A k \in used : k <= m
            IN  [taken EXCEPT !.occupied_sectors = SubSeq(bits, 1, keep)]

free_chunk(r, chunk_x, chunk_z) ==
    LET idx == coords_to_idx(chunk_x, chunk_z)
        header == r.headers[idx]
    IN  IF header.address = None THEN r
        ELSE
            LET addr == header.address[1]
                start == addr.offset - HEADER_SECTORS
                end == Min((addr.offset + addr.len) - HEADER_SECTORS,
                           Len(r.occupied_sectors))
            IN  [r EXCEPT
                    !.headers[idx].address = None,
                    !.occupied_sectors =
                        IF start < end THEN fill(@, start, end, FALSE) ELSE @]

\* delete_chunk without the set_mtime.
delete_chunk_no_stamp(r, chunk_x, chunk_z, now) == free_chunk(r, chunk_x, chunk_z)

delete_chunk(r, chunk_x, chunk_z, now) ==
    LET idx == coords_to_idx(chunk_x, chunk_z)
        stamped == [r EXCEPT !.headers[idx] = set_mtime(@, now)]
    IN  free_chunk(stamped, chunk_x, chunk_z)

\* allocate_run never looking for a hole: the run goes behind the bitmap.
allocate_from_appends(occupied, len, start) ==
    LET at == Len(occupied)
    IN  IF at + len >= MAX_SECTORS
        THEN [addr |-> None, occupied_sectors |-> occupied]
        ELSE [addr |-> Some([offset |-> at + HEADER_SECTORS, len |-> len]),
              occupied_sectors |-> resize(occupied, at + len, TRUE)]

\* allocate_run failing only when the run ends behind MAX_SECTORS.
allocate_from_ceiling_inclusive(occupied, len, start) ==
    LET Search[from0 \in 0..Len(occupied)] ==
            LET zero == first_zero(occupied, from0, Len(occupied))
            IN  IF zero = None THEN Len(occupied)
                ELSE
                    LET from == from0 + zero[1]
                        one == first_one(occupied, from, Min(from + len, Len(occupied)))
                    IN  IF one # None THEN Search[from + one[1]] ELSE from
        at == Search[start]
    IN  IF at + len > MAX_SECTORS
        THEN [addr |-> None, occupied_sectors |-> occupied]
        ELSE [addr |-> Some([offset |-> at + HEADER_SECTORS, len |-> len]),
              occupied_sectors |->
                resize(fill(occupied, at, Len(occupied), TRUE),
                       IF at + len > Len(occupied) THEN at + len ELSE Len(occupied),
                       TRUE)]

\* The search loop of allocate_run, entered with `start`.
\* Returns [addr: Option<ChunkAddress>, occupied_sectors].
RECURSIVE allocate_from(_, _, _)
allocate_from(occupied, len, start) ==
    LET zero == first_zero(occupied, start, Len(occupied))
    IN  IF zero = None
        THEN \* there's no more empty space, allocate
            LET at == Len(occupied)
            IN  IF at + len >= MAX_SECTORS
                THEN [addr |-> None, occupied_sectors |-> occupied]
                ELSE [addr |-> Some([offset |-> at + HEADER_SECTORS, len |-> len]),
                      occupied_sectors |-> resize(occupied, at + len, TRUE)]
        ELSE
            LET from == start + zero[1]
                search_end == Min(from + len, Len(occupied))
                one == first_one(occupied, from, search_end)
            IN  IF one # None
                THEN \* doesn't fit, try again
                     allocate_from(occupied, len, from + one[1])
                ELSE
                    LET end == from + len
                    IN  IF end >= MAX_SECTORS
                        THEN [addr |-> None, occupied_sectors |-> occupied]
                        ELSE [addr |-> Some([offset |-> from + HEADER_SECTORS,
                                             len |-> len]),
                              occupied_sectors |->
                                IF end > Len(occupied)
                                THEN resize(fill(occupied, from, Len(occupied), TRUE),
                                            end, TRUE)
                                ELSE fill(occupied, from, end, TRUE)]

\* allocate_run taking the first free sector without looking at the rest of the run.
allocate_run_first_zero(occupied, len) ==
    LET zero == first_zero(occupied, 0, Len(occupied))
        from == IF zero = None THEN Len(occupied) ELSE zero[1]
    IN  [addr |-> Some([offset |-> from + HEADER_SECTORS, len |-> len]),
         occupied_sectors |->
            resize(fill(occupied, from, from + len, TRUE),
                   IF from + len > Len(occupied) THEN from + len ELSE Len(occupied),
                   TRUE)]

allocate_run(occupied, len) ==
    allocate_from(occupied, len, 0)

\* write_chunk marking only the sectors it adds to the bitmap when the run
\* ends behind it.
write_chunk_dirty_tail_missed(r0, chunk_x, chunk_z, data, compression_type, mtime) ==
    LET r == free_chunk(r0, chunk_x, chunk_z)
    IN  IF Len(data) >= MAX_CHUNK_LEN THEN r
        ELSE
            LET meta_len == ChunkInternalMeta_LEN
                container_len == Len(data) + meta_len
                run == allocate_run(r.occupied_sectors,
                                    div_ceil(container_len, SECTOR_LEN))
            IN  IF run.addr = None THEN r
                ELSE
                    LET addr == run.addr[1]
                        \* write data
                        start == (addr.offset - HEADER_SECTORS) * SECTOR_LEN
                        len == addr.len * SECTOR_LEN
                        end == start + len
                        grown == IF end > Len(r.chunk_data)
                                 THEN resize(r.chunk_data, end, 0)
                                 ELSE r.chunk_data
                        container_end == start + container_len
                        cleared == IF container_end < end
                                   THEN copy_from_slice(grown, container_end,
                                                        Zeros(end - container_end))
                                   ELSE grown
                        meta == [length |-> Len(data) + 1,
                                 compression_type |-> compression_type]
                        with_meta == copy_from_slice(cleared, start,
                                                     ChunkInternalMeta_write(meta))
                        written == copy_from_slice(with_meta, start + meta_len, data)
                        \* mark dirty
                        dstart == addr.offset - HEADER_SECTORS
                        dend == dstart + addr.len
                        dirty == IF dend > Len(r.dirty_sectors)
                                 THEN resize(r.dirty_sectors, dend, TRUE)
                                 ELSE fill(r.dirty_sectors, dstart, dend, TRUE)
                        idx == coords_to_idx(chunk_x, chunk_z)
                    IN  [headers |->
                            [r.headers EXCEPT
                                ![idx] = [address |-> Some(addr),
                                          mtime |-> set_mtime(@, mtime).mtime]],
                         chunk_data |-> written,
                         occupied_sectors |-> run.occupied_sectors,
                         dirty_sectors |-> dirty]

write_chunk(r0, chunk_x, chunk_z, data, compression_type, mtime) ==
    LET r == free_chunk(r0, chunk_x, chunk_z)
    IN  IF Len(data) >= MAX_CHUNK_LEN THEN r
        ELSE
            LET meta_len == ChunkInternalMeta_LEN
                container_len == Len(data) + meta_len
                run == allocate_run(r.occupied_sectors,
                                    div_ceil(container_len, SECTOR_LEN))
            IN  IF run.addr = None THEN r
                ELSE
                    LET addr == run.addr[1]
                        \* write data
                        start == (addr.offset - HEADER_SECTORS) * SECTOR_LEN
                        len == addr.len * SECTOR_LEN
                        end == start + len
                        grown == IF end > Len(r.chunk_data)
                                 THEN resize(r.chunk_data, end, 0)
                                 ELSE r.chunk_data
                        container_end == start + container_len
                        cleared == IF container_end < end
                                   THEN copy_from_slice(grown, container_end,
                                                        Zeros(end - container_end))
                                   ELSE grown
                        meta == [length |-> Len(data) + 1,
                                 compression_type |-> compression_type]
                        with_meta == copy_from_slice(cleared, start,
                                                     ChunkInternalMeta_write(meta))
                        written == copy_from_slice(with_meta, start + meta_len, data)
                        \* mark dirty
                        dstart == addr.offset - HEADER_SECTORS
                        dend == dstart + addr.len
                        dirty == IF dend > Len(r.dirty_sectors)
                                 THEN resize(fill(r.dirty_sectors, dstart,
                                                  Len(r.dirty_sectors), TRUE),
                                             dend, TRUE)
                                 ELSE fill(r.dirty_sectors, dstart, dend, TRUE)
                        idx == coords_to_idx(chunk_x, chunk_z)
                    IN  [headers |->
                            [r.headers EXCEPT
                                ![idx] = [address |-> Some(addr),
                                          mtime |-> set_mtime(@, mtime).mtime]],
                         chunk_data |-> written,
                         occupied_sectors |-> run.occupied_sectors,
                         dirty_sectors |-> dirty]

\* max(offset + len - HEADER_SECTORS) over the valid headers, 0 if none.
max_occupied_end(r) ==
    LET ends == {r.headers[i].address[1].offset + r.headers[i].address[1].len
                    - HEADER_SECTORS : i \in {j \in Slots : valid(r.headers[j])}}
    IN  IF ends = {} THEN 0 ELSE CHOOSE m \in ends : \A k \in ends : k <= m

\* The sectors write_out writes, in order.
sector_idx_iter(r, full_write, sector_count) ==
    IF full_write THEN 0..(sector_count - 1)
    ELSE {i \in 0..(Len(r.dirty_sectors) - 1) : r.dirty_sectors[i + 1] /\ i < sector_count}

\* write_out leaving the dirty bits as they are.
write_out_keeps_dirty(r, f, full_write) ==
    LET sector_count == max_occupied_end(r)
        sized == resize(f.payload, sector_count * SECTOR_LEN, 0)
        locations ==
            [idx \in Slots |->
                LET header == r.headers[idx]
                    start == IF header.address = None THEN 0 ELSE header.address[1].offset
                    len == IF header.address = None THEN 0 ELSE header.address[1].len
                    field == start % (2 ^ OFFSET_BITS)
                IN  << (field \div (2 ^ 16)) % 256, (field \div (2 ^ 8)) % 256,
                       field % 256, len % 256 >>]
        timestamps == [idx \in Slots |-> be_bytes(r.headers[idx].mtime)]
        sectors == sector_idx_iter(r, full_write, sector_count)
        payload ==
            [i \in 1..Len(sized) |->
                IF ((i - 1) \div SECTOR_LEN) \in sectors THEN r.chunk_data[i] ELSE sized[i]]
    IN  [region |-> r,
         file |-> [locations |-> locations, timestamps |-> timestamps,
                   payload |-> payload]]

\* write_out storing the low byte of the offset only.
write_out_offset_low_byte(r, f, full_write) ==
    LET sector_count == max_occupied_end(r)
        sized == resize(f.payload, sector_count * SECTOR_LEN, 0)
        locations ==
            [idx \in Slots |->
                LET header == r.headers[idx]
                    start == IF header.address = None THEN 0 ELSE header.address[1].offset
                    len == IF header.address = None THEN 0 ELSE header.address[1].len
                IN  << 0, 0, start % 256, len % 256 >>]
        timestamps == [idx \in Slots |-> be_bytes(r.headers[idx].mtime)]
        sectors == sector_idx_iter(r, full_write, sector_count)
        payload ==
            [i \in 1..Len(sized) |->
                IF ((i - 1) \div SECTOR_LEN) \in sectors THEN r.chunk_data[i] ELSE sized[i]]
    IN  [region |-> [r EXCEPT !.dirty_sectors = false_bitvec(Len(@))],
         file |-> [locations |-> locations, timestamps |-> timestamps,
                   payload |-> payload]]

\* write_out with every I/O call succeeding: [region, file].
\* The file is [locations, timestamps, payload]: the two header tables, one
\* 4-byte entry per slot, and the bytes from HEADER_LEN on.
write_out(r, f, full_write) ==
    LET sector_count == max_occupied_end(r)
        \* file.set_len(HEADER_LEN + sector_count * SECTOR_LEN)
        sized == resize(f.payload, sector_count * SECTOR_LEN, 0)
        locations ==
            [idx \in Slots |->
                LET header == r.headers[idx]
                    start == IF header.address = None THEN 0 ELSE header.address[1].offset
                    len == IF header.address = None THEN 0 ELSE header.address[1].len
                    field == start % (2 ^ OFFSET_BITS)
                IN  << (field \div (2 ^ 16)) % 256, (field \div (2 ^ 8)) % 256,
                       field % 256, len % 256 >>]
        timestamps == [idx \in Slots |-> be_bytes(r.headers[idx].mtime)]
        sectors == sector_idx_iter(r, full_write, sector_count)
        payload ==
            [i \in 1..Len(sized) |->
                IF ((i - 1) \div SECTOR_LEN) \in sectors THEN r.chunk_data[i] ELSE sized[i]]
    IN  [region |-> [r EXCEPT !.dirty_sectors = false_bitvec(Len(@))],
         file |-> [locations |-> locations, timestamps |-> timestamps,
                   payload |-> payload]]

\* The header RegionFile::new builds for slot idx, before the panic check.
parsed_header(f, chunk_data, sector_count, idx) ==
    LET pos_info == read_big_endian(f.locations[idx], 0)
        offset == (pos_info \div (2 ^ 8)) % (2 ^ OFFSET_BITS)
        len == pos_info % 256
        mtime == read_big_endian(f.timestamps[idx], 0)
        header == ChunkHeader_new(offset, len, mtime, sector_count)
    IN  IF header.address = None THEN header
        ELSE
            LET addr == header.address[1]
                byte_offset == (addr.offset - 2) * SECTOR_LEN
                byte_len == addr.len * SECTOR_LEN
                chunk_specific_data == slice(chunk_data, byte_offset, byte_offset + byte_len)
                meta == ChunkInternalMeta_read(chunk_specific_data)
            IN  IF meta.length <= 1 \/ meta.length + 4 > Len(chunk_specific_data)
                THEN [header EXCEPT !.address = None]
                ELSE header

\* Whether RegionFile::new panics on slot idx: the chunk is stored externally.
stored_externally(f, chunk_data, sector_count, idx) ==
    LET pos_info == read_big_endian(f.locations[idx], 0)
        offset == (pos_info \div (2 ^ 8)) % (2 ^ OFFSET_BITS)
        len == pos_info % 256
        header == ChunkHeader_new(offset, len, 0, sector_count)
    IN  /\ header.address # None
        /\ LET ct == decode(chunk_data[(offset - 2) * SECTOR_LEN + 5])
           IN  ct.tag = "Unknown" /\ ct.id >= 128

\* RegionFile::new on a file of at least HEADER_LEN bytes: [panicked, region].
RegionFile_new(f) ==
    LET sector_count == div_ceil(Len(f.payload), SECTOR_LEN)
        chunk_data == resize(f.payload, sector_count * SECTOR_LEN, 0)
        headers == [idx \in Slots |->
                        parsed_header(f, chunk_data, sector_count, idx)]
        covered(i) == \E idx \in Slots :
                        /\ valid(headers[idx])
                        /\ headers[idx].address[1].offset - HEADER_SECTORS <= i
                        /\ i < headers[idx].address[1].offset
                                + headers[idx].address[1].len - HEADER_SECTORS
    IN  [panicked |-> \E idx \in Slots :
                        stored_externally(f, chunk_data, sector_count, idx),
         region |-> [headers |-> headers,
                     chunk_data |-> chunk_data,
                     occupied_sectors |-> [i \in 1..sector_count |-> covered(i - 1)],
                     dirty_sectors |-> false_bitvec(sector_count)]]

(***************************************************************************)
(* The region engine as a state machine                                    *)
(***************************************************************************)
\* 8192 zero bytes.
ZeroFile ==
    [locations |-> [idx \in Slots |-> <<0, 0, 0, 0>>],
     timestamps |-> [idx \in Slots |-> <<0, 0, 0, 0>>],
     payload |-> << >>]

Bytes(n) == [i \in 1..n |-> (i * 17) % 256]

\* Inputs of the region engine's operations.  <<35, 37>> is (3, 5) once masked.
CoordInputs == Coords \cup {<<35, 37>>}
Payloads ==
    { [data |-> << >>, ct |-> Zlib],
      [data |-> <<170, 187>>, ct |-> Zlib],
      [data |-> Bytes(SECTOR_LEN - 5), ct |-> GZip],
      [data |-> Bytes(SECTOR_LEN - 4), ct |-> Unknown(42)],
      [data |-> <<1>>, ct |-> Unknown(200)],
      [data |-> Zeros(MAX_CHUNK_LEN), ct |-> NoCompression] }
WriteTimes ==
    {[secs |-> 1700000000, nanos |-> 0], [secs |-> 1700000002, nanos |-> 999999999]}
DeleteTimes == {[secs |-> 1700000001, nanos |-> 500]}

InitRegion ==
    /\ file = ZeroFile
    /\ region = RegionFile_new(file).region
    /\ last = [op |-> "new"]
    /\ steps = 0
    /\ fs = None
    /\ issued = << >>
    /\ arg = None
    /\ ret = None

WriteChunk ==
    /\ steps < MaxSteps
    /\ \E c \in CoordInputs, p \in Payloads, t \in WriteTimes :
        /\ region' = write_chunk(region, c[1], c[2], p.data, p.ct, t)
        /\ last' = [op |-> "write_chunk", x |-> c[1], z |-> c[2],
                    data |-> p.data, ct |-> p.ct, mtime |-> t]
    /\ steps' = steps + 1
    /\ UNCHANGED <<file, arg, ret, fs, issued>>

DeleteChunk ==
    /\ steps < MaxSteps
    /\ \E c \in CoordInputs, t \in DeleteTimes :
        /\ region' = delete_chunk(region, c[1], c[2], t)
        /\ last' = [op |-> "delete_chunk", x |-> c[1], z |-> c[2], now |-> t]
    /\ steps' = steps + 1
    /\ UNCHANGED <<file, arg, ret, fs, issued>>

WriteOut ==
    /\ steps < MaxSteps
    /\ \E full_write \in BOOLEAN :
        LET out == write_out(region, file, full_write)
        IN  /\ region' = out.region
            /\ file' = out.file
            /\ last' = [op |-> "write_out", full_write |-> full_write]
    /\ steps' = steps + 1
    /\ UNCHANGED <<arg, ret, fs, issued>>

NextRegion == WriteChunk \/ DeleteChunk \/ WriteOut

SpecRegion == InitRegion /\ [][NextRegion]_vars

(***************************************************************************)
(* Properties of the region engine                                         *)
(***************************************************************************)
\* The slots whose valid header covers payload sector i.
claimants(r, i) ==
    {idx \in Slots :
        /\ valid(r.headers[idx])
        /\ r.headers[idx].address[1].offset - HEADER_SECTORS <= i
        /\ i < r.headers[idx].address[1].offset + r.headers[idx].address[1].len
                - HEADER_SECTORS}

occupied(r, i) == i < Len(r.occupied_sectors) /\ r.occupied_sectors[i + 1]

\* One past the last payload sector that the bitmap or a header speaks of.
sector_span(r) ==
    LET m == max_occupied_end(r)
    IN  IF m > Len(r.occupied_sectors) THEN m ELSE Len(r.occupied_sectors)

\* C1: after any sequence of write_chunk and delete_chunk calls (and
\* write_out), a payload sector's occupied bit is set iff exactly one valid
\* header's run contains it, and no sector is claimed by two headers.
C1_SectorBookkeeping ==
    \A i \in 0..(sector_span(region) - 1) :
        /\ occupied(region, i) <=> Cardinality(claimants(region, i)) = 1
        /\ Cardinality(claimants(region, i)) <= 1

\* C1 witness: a delete has left a free sector below an occupied one while a
\* chunk is still stored.
C1_Witness ==
    /\ last.op = "delete_chunk"
    /\ \E i, j \in 0..(Len(region.occupied_sectors) - 1) :
        /\ i < j
        /\ ~occupied(region, i)
        /\ occupied(region, j)
        /\ claimants(region, j) # {}

\* The sectors of an address.
run_of(addr) == (addr.offset - HEADER_SECTORS)..(addr.offset + addr.len - HEADER_SECTORS - 1)

\* C2: the run a write_chunk obtains from allocate_run starts at offset >= 2,
\* has the requested length, consists of sectors that were free when
\* allocate_run was called (after the slot's old run was freed) and is
\* exactly what becomes occupied; no two slots share a sector and the other
\* slots' chunks read as before.
C2_Step ==
    last'.op = "write_chunk" =>
        LET idx == coords_to_idx(last'.x, last'.z)
            freed == free_chunk(region, last'.x, last'.z)
            header == region'.headers[idx]
        IN  /\ valid(header) =>
                LET addr == header.address[1]
                IN  /\ addr.offset >= 2
                    /\ addr.len >= 1
                    /\ addr.len = div_ceil(Len(last'.data) + 5, SECTOR_LEN)
                    /\ \A i \in run_of(addr) : ~occupied(freed, i)
                    /\ \A i \in 0..(sector_span(region') - 1) :
                        occupied(region', i) <=> (i \in run_of(addr) \/ occupied(freed, i))
            /\ \A i \in 0..(sector_span(region') - 1) :
                Cardinality(claimants(region', i)) <= 1
            /\ \A other \in Slots \ {idx} :
                LET c == idx_to_coords(other)
                IN  /\ region'.headers[other] = region.headers[other]
                    /\ lookup_chunk(region', c[1], c[2]) = lookup_chunk(region, c[1], c[2])

C2_AllocationDisjoint == [][C2_Step]_vars

\* C2 witness: a write was placed past a free sector that was too short a
\* hole for it, next to another slot's chunk.
C2_Witness ==
    /\ last.op = "write_chunk"
    /\ LET idx == coords_to_idx(last.x, last.z)
       IN  /\ valid(region.headers[idx])
           /\ region.headers[idx].address[1].len = 2
           /\ \E i \in 0..(region.headers[idx].address[1].offset - HEADER_SECTORS - 1) :
                ~occupied(region, i)
           /\ \E other \in Slots \ {idx} : valid(region.headers[other])

\* C3 (as claimed): after write_out(full_write = true), parsing the file
\* yields every slot's address and mtime and the same chunk for every slot.
C3_RoundTrip ==
    (last.op = "write_out" /\ last.full_write) =>
        LET parsed == RegionFile_new(file)
        IN  /\ ~parsed.panicked
            /\ \A idx \in Slots :
                LET c == idx_to_coords(idx)
                IN  /\ parsed.region.headers[idx] = region.headers[idx]
                    /\ lookup_chunk(parsed.region, c[1], c[2])
                        = lookup_chunk(region, c[1], c[2])

(***************************************************************************)
(* File names (smithy_fs.rs): FileKind, FileKey                            *)
(***************************************************************************)
\* A str is a sequence of chars.  "U+00E9" stands for a char of two UTF-8
\* bytes; every other char used here is ASCII.
Utf8Len(c) == IF c = "U+00E9" THEN 2 ELSE 1

RECURSIVE str_len(_)
str_len(str) == IF str = << >> THEN 0 ELSE Utf8Len(Head(str)) + str_len(Tail(str))

\* The number of leading chars of str that end at byte index `at`, or None
\* when `at` is not a char boundary (slicing there panics).
char_boundary(str, at) ==
    LET hits == {k \in 0..Len(str) : str_len(SubSeq(str, 1, k)) = at}
    IN  IF hits = {} THEN None ELSE Some(CHOOSE k \in hits : TRUE)

Digits == <<"0", "1", "2", "3", "4", "5", "6", "7", "8", "9">>

\* char::to_digit(10)
to_digit(c) ==
    IF \E i \in 1..10 : Digits[i] = c
    THEN Some((CHOOSE i \in 1..10 : Digits[i] = c) - 1)
    ELSE None

\* format!("{}", n) for an unsigned n
RECURSIVE to_decimal(_)
to_decimal(n) ==
    IF n < 10 THEN <<Digits[n + 1]>>
    ELSE to_decimal(n \div 10) \o <<Digits[(n % 10) + 1]>>

FileKinds == {"Chunk", "CompressionInfo"}
EXT_NBT == <<".", "n", "b", "t">>
EXT_CMP == <<".", "c", "m", "p">>

\* make_fname formatting each number with two digits.
make_fname_padded(kind, x, z) ==
    <<"x", Digits[(x \div 10) + 1], Digits[(x % 10) + 1],
      "z", Digits[(z \div 10) + 1], Digits[(z % 10) + 1]>>
        \o (IF kind = "Chunk" THEN EXT_NBT ELSE EXT_CMP)

make_fname(kind, x, z) ==
    LET ext == IF kind = "Chunk" THEN EXT_NBT ELSE EXT_CMP
    IN  <<"x">> \o to_decimal(x) \o <<"z">> \o to_decimal(z) \o ext

\* [panicked, value]: value is Some(<<kind, rest>>) or None.
parse_extension(fname) ==
    IF str_len(fname) < 4 THEN [panicked |-> FALSE, value |-> None]
    ELSE
        LET cut == char_boundary(fname, str_len(fname) - 4)
        IN  IF cut = None THEN [panicked |-> TRUE, value |-> None]
            ELSE
                LET ext == SubSeq(fname, cut[1] + 1, Len(fname))
                    rest == SubSeq(fname, 1, cut[1])
                IN  [panicked |-> FALSE,
                     value |-> CASE ext = EXT_NBT -> Some(<<"Chunk", rest>>)
                                 [] ext = EXT_CMP -> Some(<<"CompressionInfo", rest>>)
                                 [] OTHER -> None]

\* One turn of the loop of FileKey::parse on char c: the next state, or the
\* way the loop is left ("break", or "return" for return None).
fsm_step(state, c) ==
    CASE state.tag = "Uninit" ->
            IF c = "x" THEN [ctl |-> "next", state |-> [tag |-> "X", x |-> 0, z |-> 0, n |-> 2]]
            ELSE [ctl |-> "break", state |-> state]
      [] state.tag = "X" ->
            IF to_digit(c) # None
            THEN IF state.n = 0 THEN [ctl |-> "break", state |-> state]
                 ELSE IF state.n < 2 /\ state.x = 0 THEN [ctl |-> "break", state |-> state]
                 ELSE [ctl |-> "next",
                       state |-> [state EXCEPT !.x = state.x * 10 + to_digit(c)[1],
                                               !.n = state.n - 1]]
            ELSE IF c = "z"
            THEN [ctl |-> "next", state |-> [tag |-> "Z", x |-> state.x, z |-> 0, n |-> 2]]
            ELSE [ctl |-> "break", state |-> state]
      [] state.tag = "Z" ->
            IF state.n = 0 THEN [ctl |-> "return", state |-> state]
            ELSE IF state.n < 2 /\ state.z = 0 THEN [ctl |-> "return", state |-> state]
            ELSE IF to_digit(c) # None
            THEN [ctl |-> "next",
                  state |-> [state EXCEPT !.z = state.z * 10 + to_digit(c)[1],
                                          !.n = state.n - 1]]
            ELSE [ctl |-> "return", state |-> state]

\* The while loop over the chars: [ctl, state] when it is left.
RECURSIVE fsm_run(_, _)
fsm_run(state, chars) ==
    IF chars = << >> THEN [ctl |-> "end", state |-> state]
    ELSE
        LET turn == fsm_step(state, Head(chars))
        IN  IF turn.ctl = "next" THEN fsm_run(turn.state, Tail(chars)) ELSE turn

\* FileKey::parse: [panicked, value], value Some([x, z, kind]) or None.
FileKey_parse(name) ==
    LET ext == parse_extension(name)
    IN  IF ext.panicked \/ ext.value = None THEN ext
        ELSE
            LET kind == ext.value[1][1]
                left == fsm_run([tag |-> "Uninit", x |-> 0, z |-> 0, n |-> 0],
                                ext.value[1][2])
                state == left.state
            IN  [panicked |-> FALSE,
                 value |->
                    IF /\ left.ctl # "return"
                       /\ state.tag = "Z" /\ state.n < 2 /\ state.x < 32 /\ state.z < 32
                    THEN Some([x |-> state.x, z |-> state.z, kind |-> kind])
                    ELSE None]

(***************************************************************************)
(* FileKey::parse applied to names                                         *)
(***************************************************************************)
\* Longest stem (the name without its last four chars) given to FileKey::parse.
MaxStemLen == 6

StemChars == {"x", "z", "0", "1", "3"}

RECURSIVE StringsUpTo(_, _)
StringsUpTo(chars, n) ==
    IF n = 0 THEN {<< >>}
    ELSE LET shorter == StringsUpTo(chars, n - 1)
         IN  shorter \cup {<<c>> \o str : c \in chars, str \in {t \in shorter : Len(t) = n - 1}}

NameEnds == {EXT_NBT, EXT_CMP, <<".", "t", "x", "t">>, <<"U+00E9", "n", "b", "t">>}

\* x00z0.nbt, x32z0.nbt, xz0.nbt, x0z00.nbt, x0z0.txt and the empty string.
NamedRejects ==
    { <<"x", "0", "0", "z", "0">> \o EXT_NBT,
      <<"x", "3", "2", "z", "0">> \o EXT_NBT,
      <<"x", "z", "0">> \o EXT_NBT,
      <<"x", "0", "z", "0", "0">> \o EXT_NBT,
      <<"x", "0", "z", "0", ".", "t", "x", "t">>,
      << >> }

Names(n) ==
    {stem \o end : stem \in StringsUpTo(StemChars, n), end \in NameEnds}
        \cup NamedRejects \cup {<<"x">>, <<"n", "b", "t">>, <<"x", "a", "z", "0">> \o EXT_NBT}

InitParse ==
    /\ arg \in Names(MaxStemLen)
    /\ ret = None
    /\ file = ZeroFile
    /\ region = RegionFile_new(file).region
    /\ last = [op |-> "new"]
    /\ steps = 0
    /\ fs = None
    /\ issued = << >>

ParseName ==
    /\ ret = None
    /\ ret' = Some(FileKey_parse(arg))
    /\ UNCHANGED <<region, file, last, steps, arg, fs, issued>>

NextParse == ParseName

SpecParse == InitParse /\ [][NextParse]_vars

\* The names of the grammar: 'x' number 'z' number extension, the numbers
\* below 32 in decimal without leading zeros.
GrammarNames ==
    {<<"x">> \o to_decimal(x) \o <<"z">> \o to_decimal(z) \o ext :
        x \in 0..31, z \in 0..31, ext \in {EXT_NBT, EXT_CMP}}

\* C4 (as claimed): FileKey::parse returns a key iff the name is in the
\* grammar, and returns None for every other name.
C4_ParseIffGrammar ==
    ret # None =>
        /\ ~ret[1].panicked
        /\ ret[1].value # None <=> arg \in GrammarNames

(***************************************************************************)
(* make_fname followed by FileKey::parse                                   *)
(***************************************************************************)
InitName ==
    /\ arg \in [x : 0..31, z : 0..31, kind : FileKinds]
    /\ ret = None
    /\ file = ZeroFile
    /\ region = RegionFile_new(file).region
    /\ last = [op |-> "new"]
    /\ steps = 0
    /\ fs = None
    /\ issued = << >>

MakeFname ==
    /\ ret = None
    /\ ret' = Some([fname |-> make_fname(arg.kind, arg.x, arg.z), parsed |-> None])
    /\ UNCHANGED <<region, file, last, steps, arg, fs, issued>>

ParseFname ==
    /\ ret # None
    /\ ret[1].parsed = None
    /\ ret' = Some([ret[1] EXCEPT !.parsed = Some(FileKey_parse(ret[1].fname))])
    /\ UNCHANGED <<region, file, last, steps, arg, fs, issued>>

NextName == MakeFname \/ ParseFname

SpecName == InitName /\ [][NextName]_vars

\* C5: for x, z in 0..31 and both kinds, parsing the name make_fname builds
\* returns the key (x, z, kind).
C5_NameRoundTrip ==
    (ret # None /\ ret[1].parsed # None) =>
        ret[1].parsed[1] = [panicked |-> FALSE,
                            value |-> Some([x |-> arg.x, z |-> arg.z, kind |-> arg.kind])]

\* C5 witness: a name with two two-digit numbers has been built and parsed.
C5_Witness ==
    /\ ret # None
    /\ ret[1].parsed # None
    /\ arg.x = 31
    /\ arg.z = 10
    /\ ret[1].fname = <<"x", "3", "1", "z", "1", "0", ".", "c", "m", "p">>

(***************************************************************************)
(* The compression selector line (anvil.rs)                                *)
(***************************************************************************)
W_gzip == <<"g", "z", "i", "p">>
W_zlib == <<"z", "l", "i", "b">>
W_none == <<"n", "o", "n", "e">>
W_lz4 == <<"l", "z", "4">>
W_zstd == <<"z", "s", "t", "d">>
W_unknown_open == <<"u", "n", "k", "n", "o", "w", "n", "(">>
W_unknown_hash == W_unknown_open \o <<"#", ")">>

Bracketed(word) == <<"[">> \o word \o <<"]">>

\* The words separated by single spaces.
RECURSIVE Spaced(_)
Spaced(words) ==
    IF Len(words) = 1 THEN words[1]
    ELSE words[1] \o <<" ">> \o Spaced(Tail(words))

\* make_selector_string with the LZ4 and Zstd arms marking each other's word.
make_selector_string_swapped(ct) ==
    (CASE ct.tag = "GZip" ->
            Spaced(<<Bracketed(W_gzip), W_zlib, W_none, W_lz4, W_zstd, W_unknown_hash>>)
       [] ct.tag = "Zlib" ->
            Spaced(<<W_gzip, Bracketed(W_zlib), W_none, W_lz4, W_zstd, W_unknown_hash>>)
       [] ct.tag = "None" ->
            Spaced(<<W_gzip, W_zlib, Bracketed(W_none), W_lz4, W_zstd, W_unknown_hash>>)
       [] ct.tag = "LZ4" ->
            Spaced(<<W_gzip, W_zlib, W_none, W_lz4, Bracketed(W_zstd), W_unknown_hash>>)
       [] ct.tag = "Zstd" ->
            Spaced(<<W_gzip, W_zlib, W_none, Bracketed(W_lz4), W_zstd, W_unknown_hash>>)
       [] OTHER ->
            Spaced(<<W_gzip, W_zlib, W_none, W_lz4, W_zstd,
                     Bracketed(W_unknown_open \o to_decimal(ct.id) \o <<")">>)>>))
        \o <<"\n">>

make_selector_string(ct) ==
    (CASE ct.tag = "GZip" ->
            Spaced(<<Bracketed(W_gzip), W_zlib, W_none, W_lz4, W_zstd, W_unknown_hash>>)
       [] ct.tag = "Zlib" ->
            Spaced(<<W_gzip, Bracketed(W_zlib), W_none, W_lz4, W_zstd, W_unknown_hash>>)
       [] ct.tag = "None" ->
            Spaced(<<W_gzip, W_zlib, Bracketed(W_none), W_lz4, W_zstd, W_unknown_hash>>)
       [] ct.tag = "LZ4" ->
            Spaced(<<W_gzip, W_zlib, W_none, Bracketed(W_lz4), W_zstd, W_unknown_hash>>)
       [] ct.tag = "Zstd" ->
            Spaced(<<W_gzip, W_zlib, W_none, W_lz4, Bracketed(W_zstd), W_unknown_hash>>)
       [] OTHER ->
            Spaced(<<W_gzip, W_zlib, W_none, W_lz4, W_zstd,
                     Bracketed(W_unknown_open \o to_decimal(ct.id) \o <<")">>)>>))
        \o <<"\n">>

UpperCase == <<"A", "B", "C", "D", "E", "F", "G", "H", "I", "J", "K", "L", "M",
               "N", "O", "P", "Q", "R", "S", "T", "U", "V", "W", "X", "Y", "Z">>
LowerCase == <<"a", "b", "c", "d", "e", "f", "g", "h", "i", "j", "k", "l", "m",
               "n", "o", "p", "q", "r", "s", "t", "u", "v", "w", "x", "y", "z">>

to_ascii_lowercase(str) ==
    [i \in 1..Len(str) |->
        IF \E k \in 1..26 : UpperCase[k] = str[i]
        THEN LowerCase[CHOOSE k \in 1..26 : UpperCase[k] = str[i]]
        ELSE str[i]]

is_whitespace(c) == c \in {" ", "\n", "\t", "\r"}

\* str::trim
trim(str) ==
    LET keep == {i \in 1..Len(str) : ~is_whitespace(str[i])}
    IN  IF keep = {} THEN << >>
        ELSE SubSeq(str, CHOOSE i \in keep : \A k \in keep : i <= k,
                         CHOOSE i \in keep : \A k \in keep : k <= i)

starts_with(str, prefix) ==
    Len(str) >= Len(prefix) /\ SubSeq(str, 1, Len(prefix)) = prefix

ends_with(str, suffix) ==
    Len(str) >= Len(suffix) /\ SubSeq(str, Len(str) - Len(suffix) + 1, Len(str)) = suffix

\* str::find(c): the index of the first c, or None.
find(str, c) ==
    LET hits == {i \in 0..(Len(str) - 1) : str[i + 1] = c}
    IN  IF hits = {} THEN None ELSE Some(CHOOSE i \in hits : \A k \in hits : i <= k)

\* The value of a digit string, 256 standing for every value above 255.
RECURSIVE digits_value(_, _)
digits_value(acc, digits) ==
    IF digits = << >> THEN acc
    ELSE LET next == acc * 10 + to_digit(Head(digits))[1]
         IN  digits_value(IF next > 255 THEN 256 ELSE next, Tail(digits))

\* str::parse::<u8>().ok(): an optional '+', then one or more digits, at most 255.
parse_u8(str) ==
    LET digits == IF str # << >> /\ Head(str) = "+" THEN Tail(str) ELSE str
    IN  IF digits = << >> \/ \E i \in 1..Len(digits) : to_digit(digits[i]) = None
        THEN None
        ELSE IF digits_value(0, digits) > 255 THEN None
        ELSE Some(digits_value(0, digits))

RECURSIVE parse_selector_string(_)
parse_selector_string(text) ==
    LET selector == trim(to_ascii_lowercase(text))
        out == CASE selector = W_gzip -> Some(GZip)
                 [] selector = W_zlib -> Some(Zlib)
                 [] selector = W_none -> Some(NoCompression)
                 [] selector = W_lz4 -> Some(LZ4)
                 [] selector = W_zstd -> Some(Zstd)
                 [] OTHER ->
                    LET inner == IF starts_with(selector, W_unknown_open)
                                    /\ ends_with(selector, <<")">>)
                                 THEN SubSeq(selector, 9, Len(selector) - 1)
                                 ELSE selector
                        id == parse_u8(inner)
                    IN  IF id = None THEN None ELSE Some(decode(id[1]))
    IN  IF out # None THEN out
        ELSE
            LET open == find(selector, "[")
            IN  IF open = None THEN None
                ELSE
                    LET start == open[1] + 1
                        close == find(SubSeq(selector, start + 1, Len(selector)), "]")
                    IN  IF close = None THEN None
                        ELSE IF close[1] > 0
                        THEN parse_selector_string(
                                SubSeq(selector, start + 1, start + close[1]))
                        ELSE None

(***************************************************************************)
(* make_selector_string followed by parse_selector_string                  *)
(***************************************************************************)
CompressionTypes ==
    {GZip, Zlib, NoCompression, LZ4, Zstd} \cup {Unknown(id) : id \in 0..255}

InitSelector ==
    /\ arg \in CompressionTypes
    /\ ret = None
    /\ file = ZeroFile
    /\ region = RegionFile_new(file).region
    /\ last = [op |-> "new"]
    /\ steps = 0
    /\ fs = None
    /\ issued = << >>

MakeSelector ==
    /\ ret = None
    /\ ret' = Some([selector |-> make_selector_string(arg), parsed |-> None])
    /\ UNCHANGED <<region, file, last, steps, arg, fs, issued>>

ParseSelector ==
    /\ ret # None
    /\ ret[1].parsed = None
    /\ ret' = Some([ret[1] EXCEPT !.parsed = Some(parse_selector_string(ret[1].selector))])
    /\ UNCHANGED <<region, file, last, steps, arg, fs, issued>>

NextSelector == MakeSelector \/ ParseSelector

SpecSelector == InitSelector /\ [][NextSelector]_vars

\* C6 (as claimed): for every CompressionType value, Unknown(id) for every
\* id in 0..255 included, parsing its selector line returns that value.
C6_SelectorRoundTrip ==
    (ret # None /\ ret[1].parsed # None) => ret[1].parsed[1] = Some(arg)

\* The ids of the named codecs.
NamedIds == {1, 2, 3, 4, 53}

\* C6 (amended): parsing the selector line of ct returns ct for the five
\* named codecs and for Unknown(id) with id not the id of a named codec; for
\* Unknown(id) with id in {1, 2, 3, 4, 53} it returns the named codec of that id.
C6_SelectorRoundTripDecoded ==
    (ret # None /\ ret[1].parsed # None) =>
        IF arg.tag = "Unknown" /\ arg.id \in NamedIds
        THEN ret[1].parsed[1] =
                Some(CASE arg.id = 1 -> GZip
                       [] arg.id = 2 -> Zlib
                       [] arg.id = 3 -> NoCompression
                       [] arg.id = 4 -> LZ4
                       [] arg.id = 53 -> Zstd)
        ELSE ret[1].parsed[1] = Some(arg)

\* C6 witness: the line of Unknown(255) has been rendered and parsed back.
C6_Witness ==
    /\ arg = Unknown(255)
    /\ ret # None
    /\ ret[1].selector = Spaced(<<W_gzip, W_zlib, W_none, W_lz4, W_zstd>>)
                            \o <<" ", "[">> \o W_unknown_open
                            \o <<"2", "5", "5", ")", "]", "\n">>
    /\ ret[1].parsed = Some(Some(Unknown(255)))

(***************************************************************************)
(* The filesystem adapter (smithy_fs.rs): data types                       *)
(***************************************************************************)
FUSE_ROOT_ID == 1

UNIX_EPOCH == [secs |-> 0, nanos |-> 0]

fattr(ino, size, time, kind, perm, nlink, uid, gid) ==
    [ino |-> ino,
     size |-> size,
     blocks |-> div_ceil(size, 512),
     atime |-> time,
     mtime |-> time,
     ctime |-> time,
     crtime |-> time,
     kind |-> kind,
     perm |-> perm,
     nlink |-> nlink,
     uid |-> uid,
     gid |-> gid,
     rdev |-> 0,
     blksize |-> SECTOR_LEN,
     flags |-> 0]

\* Permissions 0o555, 0o755, 0o444 and 0o644 are written in decimal.
ROOT_DIR_ATTR == fattr(FUSE_ROOT_ID, 0, UNIX_EPOCH, "Directory", 365, 2, 0, 0)

\* HashMap::insert and HashMap::remove on a map held as a function.
insert(map, key, value) == (key :> value) @@ map

\* HashMap::remove leaving the entry where it is.
remove_keeps_entry(map, key) == map

remove(map, key) == [k \in (DOMAIN map) \ {key} |-> map[k]]

EmptyMap == [k \in {} |-> k]

\* The characters the adapter's files and the modelled requests use, with
\* their byte: str::as_bytes and std::str::from_utf8 on one-byte characters.
AsciiTable ==
    {<<"\n", 10>>, <<" ", 32>>, <<"#", 35>>, <<"(", 40>>, <<")", 41>>,
     <<"+", 43>>, <<".", 46>>, <<"[", 91>>, <<"]", 93>>}
    \cup {<<Digits[i], 47 + i>> : i \in 1..10}
    \cup {<<UpperCase[i], 64 + i>> : i \in 1..26}
    \cup {<<LowerCase[i], 96 + i>> : i \in 1..26}

\* The table read by char and read by byte.
AsciiCode == [c \in {e[1] : e \in AsciiTable} |-> (CHOOSE e \in AsciiTable : e[1] = c)[2]]
AsciiChar == [b \in {e[2] : e \in AsciiTable} |-> (CHOOSE e \in AsciiTable : e[2] = b)[1]]

as_bytes(str) == [i \in 1..Len(str) |-> AsciiCode[str[i]]]

\* Ok(str) as Some(str), Err as None.  A byte 0xF8..0xFF occurs in no UTF-8
\* text; every other byte of the modelled requests is a one-byte character.
from_utf8(bytes) ==
    IF \E i \in 1..Len(bytes) : bytes[i] >= 248 THEN None
    ELSE Some([i \in 1..Len(bytes) |-> AsciiChar[bytes[i]]])

is_chunk(kind) == kind = "Chunk"

FileHandle_new(read, write) ==
    [perms |-> (IF read THEN 1 ELSE 0) + (IF write THEN 2 ELSE 0)]

\* FileHandle::can_read answering yes for every handle.
can_read_always(handle) == TRUE

can_read(handle) == handle.perms % 2 # 0
can_write(handle) == (handle.perms \div 2) % 2 # 0

\* FileHandleAlloc::alloc: the counter after the call is the handle.
FileHandleAlloc_alloc(fh_alloc) == fh_alloc + 1

\* The bytes reply.data receives.
\* read_into replying the whole of data.
read_into_whole(data, offset, size) == data

read_into(data, offset, size) ==
    IF offset >= Len(data) THEN << >>
    ELSE slice(data, offset, Min(offset + size, Len(data)))

InodeData_new(kind, chunk) ==
    IF kind = "Chunk" THEN [kind |-> "Chunk", bytes |-> chunk.data]
    ELSE [kind |-> "CompressionInfo", ct |-> chunk.compression_type]

InodeData_blank(kind) ==
    IF kind = "Chunk" THEN [kind |-> "Chunk", bytes |-> << >>]
    ELSE [kind |-> "CompressionInfo", ct |-> Unknown(42)]

InodeData_len(data) ==
    IF data.kind = "Chunk" THEN Len(data.bytes)
    ELSE str_len(make_selector_string(data.ct))

Error(errno) == [tag |-> "error", errno |-> errno]

\* The reply InodeData::read sends.
InodeData_read(data, offset, size) ==
    IF offset < 0 THEN Error("EINVAL")
    ELSE IF data.kind = "Chunk"
    THEN [tag |-> "data", data |-> read_into(data.bytes, offset, size)]
    ELSE [tag |-> "data",
          data |-> read_into(as_bytes(make_selector_string(data.ct)), offset, size)]

\* InodeData::write: the data afterwards and the reply sent.
InodeData_write(data, offset, bytes) ==
    IF offset < 0 THEN [data |-> data, reply |-> Error("EINVAL")]
    ELSE IF data.kind = "Chunk"
    THEN
        LET end == offset + Len(bytes)
        IN  IF end >= MAX_CHUNK_LEN THEN [data |-> data, reply |-> Error("EFBIG")]
            ELSE
                LET chunk == IF end > Len(data.bytes) THEN resize(data.bytes, end, 0)
                             ELSE data.bytes
                IN  [data |-> [data EXCEPT !.bytes = copy_from_slice(chunk, offset, bytes)],
                     reply |-> [tag |-> "written", size |-> Len(bytes)]]
    ELSE
        IF offset # 0 THEN [data |-> data, reply |-> Error("EINVAL")]
        ELSE IF from_utf8(bytes) = None THEN [data |-> data, reply |-> Error("EINVAL")]
        ELSE
            LET ct_new == parse_selector_string(from_utf8(bytes)[1])
            IN  IF ct_new = None THEN [data |-> data, reply |-> Error("EINVAL")]
                ELSE [data |-> [data EXCEPT !.ct = ct_new[1]],
                      reply |-> [tag |-> "written", size |-> Len(bytes)]]

InoSet_get(inos, kind) == IF kind = "Chunk" THEN inos.chunk_ino ELSE inos.info_ino

\* InoSet::into_iter
InoSet_iter(inos) == <<inos.chunk_ino, inos.info_ino>>

Inode_new(chunk, inos, kind) ==
    [ino |-> InoSet_get(inos, kind),
     x |-> chunk.x,
     z |-> chunk.z,
     data |-> InodeData_new(kind, chunk),
     mtime |-> chunk.mtime,
     open_handles |-> EmptyMap,
     linked |-> TRUE,
     nlookup |-> 0]

Inode_blank(x, z, inos, kind, now) ==
    [ino |-> InoSet_get(inos, kind),
     x |-> x,
     z |-> z,
     data |-> InodeData_blank(kind),
     mtime |-> now,
     open_handles |-> EmptyMap,
     linked |-> TRUE,
     nlookup |-> 0]

\* Inode::attr reporting one link whether or not the inode is linked.
Inode_attr_always_linked(inode, writable, uid, gid) ==
    fattr(inode.ino, InodeData_len(inode.data), inode.mtime, "RegularFile",
          IF writable THEN 420 ELSE 292, 1, uid, gid)

Inode_attr(inode, writable, uid, gid) ==
    fattr(inode.ino, InodeData_len(inode.data), inode.mtime, "RegularFile",
          IF writable THEN 420 ELSE 292, IF inode.linked THEN 1 ELSE 0, uid, gid)

inc_lookup(inode) == [inode EXCEPT !.nlookup = inode.nlookup + 1]

\* Inode::can_discard not looking at the open handles.
can_discard_ignores_handles(inode) == ~inode.linked /\ inode.nlookup = 0

can_discard(inode) ==
    ~inode.linked /\ inode.nlookup = 0 /\ DOMAIN inode.open_handles = {}

Inode_make_fname(inode) == make_fname(inode.data.kind, inode.x, inode.z)

InoAlloc_new == FUSE_ROOT_ID + 1

\* InoAlloc::allocate_inos giving the even ino to the .cmp file.
allocate_inos_swapped(ino_alloc) ==
    LET even == ((ino_alloc + 1) \div 2) * 2
    IN  [ino_alloc |-> even + 2,
         entry |-> [chunk_ino |-> even + 1, info_ino |-> even]]

\* InoAlloc::allocate_inos keeping its counter where it was.
allocate_inos_no_advance(ino_alloc) ==
    LET even == ((ino_alloc + 1) \div 2) * 2
    IN  [ino_alloc |-> even,
         entry |-> [chunk_ino |-> even, info_ino |-> even + 1]]

\* The counter afterwards and the pair handed out.
allocate_inos(ino_alloc) ==
    LET even == ((ino_alloc + 1) \div 2) * 2
    IN  [ino_alloc |-> even + 2,
         entry |-> [chunk_ino |-> even, info_ino |-> even + 1]]

DeletionInfo_from(inode) ==
    [ino |-> inode.ino, x |-> inode.x, z |-> inode.z, kind |-> inode.data.kind]

(***************************************************************************)
(* SmithyFS (smithy_fs.rs).  The struct is a record; its region field is   *)
(* the variable region.  A build with overflow checks panics on u64        *)
(* underflow, one without wraps; overflow_checks is the build's profile    *)
(* once an underflow has shown it, None before.  A wrapped u64 is held as  *)
(* a negative number: -k stands for 2^64 - k.  panicked is set when a      *)
(* handler has panicked, which ends the session.                           *)
(***************************************************************************)
\* The set's elements in ascending order.
RECURSIVE Ascending(_)
Ascending(S) ==
    IF S = {} THEN << >>
    ELSE LET m == CHOOSE m \in S : \A k \in S : m <= k
         IN  <<m>> \o Ascending(S \ {m})

\* a < b on u64 values.
u64_lt(a, b) ==
    IF a < 0 THEN (b < 0 /\ a < b) ELSE (b < 0 \/ a < b)

\* Inode::dec_lookup: self.nlookup -= count.
dec_lookup(inode, count, overflow_checks) ==
    IF u64_lt(inode.nlookup, count) /\ overflow_checks
    THEN [panicked |-> TRUE, inode |-> inode]
    ELSE [panicked |-> FALSE, inode |-> [inode EXCEPT !.nlookup = inode.nlookup - count]]

\* The loop body of SmithyFS::new for the slots idxs, in order.
RECURSIVE new_loop(_, _, _)
new_loop(acc, r, idxs) ==
    IF idxs = << >> THEN acc
    ELSE
        LET x == idx_to_coords(Head(idxs))[1]
            z == idx_to_coords(Head(idxs))[2]
            chunk == lookup_chunk(r, x, z)
        IN  IF chunk = None THEN new_loop(acc, r, Tail(idxs))
            ELSE
                LET alloc == allocate_inos(acc.fs.ino_alloc)
                    inos == alloc.entry
                    chunk_ino == Inode_new(chunk[1], inos, "Chunk")
                    info_ino == Inode_new(chunk[1], inos, "CompressionInfo")
                    fs1 == [acc.fs EXCEPT
                              !.ino_alloc = alloc.ino_alloc,
                              !.links = insert(@, <<x, z>>, inos),
                              !.inodes = insert(insert(@, inos.chunk_ino, chunk_ino),
                                                inos.info_ino, info_ino)]
                IN  new_loop([fs |-> fs1, issued |-> Append(acc.issued, inos)],
                             r, Tail(idxs))

\* SmithyFS::new: the adapter, and the pairs its allocator handed out.  The
\* loops visit z = 0..31, x = 0..31, which is ascending slot index; the
\* slots outside Slots hold no chunk.
SmithyFS_new(r, uid, gid, writable) ==
    new_loop(
        [fs |-> [region |-> r,
                 uid |-> uid,
                 gid |-> gid,
                 writable |-> writable,
                 root_dir_attr |-> [ROOT_DIR_ATTR EXCEPT
                                      !.uid = uid, !.gid = gid,
                                      !.perm = IF writable THEN 493 ELSE 365],
                 links |-> EmptyMap,
                 inodes |-> EmptyMap,
                 dir_handles |-> EmptyMap,
                 ino_alloc |-> InoAlloc_new,
                 fh_alloc |-> 0,
                 notifier |-> None,
                 notifier_locked |-> FALSE,
                 overflow_checks |-> None,
                 panicked |-> FALSE],
         issued |-> << >>],
        r, Ascending(Slots))

\* run_mount: the session's notifier is stored before the session runs.
install_notifier(f) == [f EXCEPT !.notifier = Some("notifier")]

get_ino(f, key) ==
    IF <<key.x, key.z>> \in DOMAIN f.links
    THEN Some(InoSet_get(f.links[<<key.x, key.z>>], key.kind))
    ELSE None

\* The ino of the inode get_inode_mut finds, or None.
get_inode_mut(f, key) ==
    LET ino == get_ino(f, key)
    IN  IF ino # None /\ ino[1] \in DOMAIN f.inodes THEN ino ELSE None

stat_inode(f, inode) == Inode_attr(inode, f.writable, f.uid, f.gid)

stat_ino(f, ino) ==
    IF ino \in DOMAIN f.inodes THEN Some(stat_inode(f, f.inodes[ino])) ELSE None

\* The directory entries of the linked slots keys, in order.
RECURSIVE dir_entries(_, _)
dir_entries(f, idxs) ==
    IF idxs = << >> THEN << >>
    ELSE
        LET x == idx_to_coords(Head(idxs))[1]
            z == idx_to_coords(Head(idxs))[2]
            inos == f.links[<<x, z>>]
        IN  << <<inos.chunk_ino, "RegularFile", make_fname("Chunk", x, z)>>,
               <<inos.info_ino, "RegularFile", make_fname("CompressionInfo", x, z)>> >>
            \o dir_entries(f, Tail(idxs))

\* create_dir_handle: the adapter afterwards and the handle.  The loops
\* visit the linked slots in ascending slot index.
create_dir_handle(f) ==
    LET fh == FileHandleAlloc_alloc(f.fh_alloc)
        entries ==
            << <<FUSE_ROOT_ID, "Directory", <<".">> >>,
               <<FUSE_ROOT_ID, "Directory", <<".", ".">> >> >>
            \o dir_entries(f, Ascending({coords_to_idx(c[1], c[2]) : c \in DOMAIN f.links}))
    IN  [fs |-> [f EXCEPT !.fh_alloc = fh,
                          !.dir_handles = insert(@, fh, [entries |-> entries])],
         fh |-> fh]

\* gc: the adapter afterwards and the inode removed, if any.
gc(f, ino) ==
    IF ino \notin DOMAIN f.inodes THEN [fs |-> f, removed |-> None]
    ELSE IF ~can_discard(f.inodes[ino]) THEN [fs |-> f, removed |-> None]
    ELSE [fs |-> [f EXCEPT !.inodes = remove(@, ino)], removed |-> Some(f.inodes[ino])]

\* delete: the names passed to Notifier::inval_entry(FUSE_ROOT_ID, name).
delete_ignores_lock(f, info) ==
    IF f.notifier # None
    THEN <<make_fname(info.kind, info.x, info.z)>>
    ELSE << >>

delete(f, info) ==
    IF ~f.notifier_locked /\ f.notifier # None
    THEN <<make_fname(info.kind, info.x, info.z)>>
    ELSE << >>

(***************************************************************************)
(* impl Filesystem for SmithyFS.  A handler is an operator from the        *)
(* adapter and the request to: the adapter afterwards (fs), the reply      *)
(* sent (reply), the inodes gc removed (discarded), the ino pairs          *)
(* allocated (issued) and the names invalidated in the kernel (inval).     *)
(***************************************************************************)
TTL == [secs |-> 1, nanos |-> 0]

O_RDONLY == 0
O_WRONLY == 1
O_RDWR == 2
O_ACCMODE == 3
O_TRUNC == 512
S_IFMT == 61440
S_IFREG == 32768
S_IFDIR == 16384

\* a & b on non-negative integers.
RECURSIVE BitAnd(_, _)
BitAnd(a, b) ==
    IF a = 0 \/ b = 0 THEN 0
    ELSE (a % 2) * (b % 2) + 2 * BitAnd(a \div 2, b \div 2)

Done(f, reply) ==
    [fs |-> f, reply |-> reply, discarded |-> {}, issued |-> << >>, inval |-> << >>]

\* A panic in a handler: no reply is sent and the session ends.
Panicked(f) == Done([f EXCEPT !.panicked = TRUE], [tag |-> "panic"])

Entry(attr) == [tag |-> "entry", ttl |-> TTL, attr |-> attr, generation |-> 0]
Attr(attr) == [tag |-> "attr", ttl |-> TTL, attr |-> attr]
Opened(fh) == [tag |-> "opened", fh |-> fh, flags |-> 0]
Ok == [tag |-> "ok"]

lookup(f, parent, name) ==
    IF parent # FUSE_ROOT_ID THEN Done(f, Error("ENOENT"))
    ELSE
        LET parsed == FileKey_parse(name)
        IN  IF parsed.panicked THEN Panicked(f)
            ELSE IF parsed.value # None /\ get_inode_mut(f, parsed.value[1]) # None
            THEN
                LET ino == get_inode_mut(f, parsed.value[1])[1]
                    inode == inc_lookup(f.inodes[ino])
                IN  Done([f EXCEPT !.inodes[ino] = inode],
                         Entry(Inode_attr(inode, f.writable, f.uid, f.gid)))
            ELSE Done(f, Error("ENOENT"))

\* overflow_checks is the profile of the build that runs.
forget(f, ino, nlookup, overflow_checks) ==
    IF ino \notin DOMAIN f.inodes THEN Done(f, [tag |-> "none"])
    ELSE
        LET dec == dec_lookup(f.inodes[ino], nlookup, overflow_checks)
        IN  IF dec.panicked THEN Panicked(f)
            ELSE
                LET f1 == [f EXCEPT
                             !.inodes[ino] = dec.inode,
                             !.overflow_checks =
                                IF u64_lt(f.inodes[ino].nlookup, nlookup)
                                THEN Some(overflow_checks) ELSE @]
                IN  IF dec.inode.nlookup = 0
                    THEN LET out == gc(f1, ino)
                         IN  [Done(out.fs, [tag |-> "none"]) EXCEPT
                                !.discarded = {out.removed[i] : i \in 1..Len(out.removed)}]
                    ELSE Done(f1, [tag |-> "none"])

getattr(f, ino) ==
    IF ino = FUSE_ROOT_ID THEN Done(f, Attr(f.root_dir_attr))
    ELSE IF stat_ino(f, ino) # None THEN Done(f, Attr(stat_ino(f, ino)[1]))
    ELSE Done(f, Error("ENOENT"))

mknod(f, parent, name, mode, now) ==
    IF ~f.writable THEN Done(f, Error("EROFS"))
    ELSE IF parent # FUSE_ROOT_ID THEN Done(f, Error("ENOENT"))
    ELSE IF BitAnd(mode, S_IFMT) # S_IFREG THEN Done(f, Error("EPERM"))
    ELSE
        LET parsed == FileKey_parse(name)
        IN  IF parsed.panicked THEN Panicked(f)
            ELSE IF parsed.value = None THEN Done(f, Error("EINVAL"))
            ELSE
                LET key == parsed.value[1]
                IN  IF <<key.x, key.z>> \in DOMAIN f.links THEN Done(f, Error("EEXIST"))
                    ELSE
                        LET alloc == allocate_inos(f.ino_alloc)
                            inos == alloc.entry
                            chunk_inode == Inode_blank(key.x, key.z, inos, "Chunk", now)
                            info_inode ==
                                Inode_blank(key.x, key.z, inos, "CompressionInfo", now)
                            f1 == [f EXCEPT
                                     !.ino_alloc = alloc.ino_alloc,
                                     !.links = insert(@, <<key.x, key.z>>, inos),
                                     !.inodes = insert(insert(@, inos.chunk_ino, chunk_inode),
                                                       inos.info_ino, info_inode)]
                        IN  [Done(f1, Entry(stat_ino(f1, InoSet_get(inos, key.kind))[1]))
                                EXCEPT !.issued = <<inos>>]

open(f, ino, flags) ==
    LET mode == BitAnd(flags, O_ACCMODE)
        trunc == BitAnd(flags, O_TRUNC) # 0
        read == mode \in {O_RDONLY, O_RDWR}
        write == mode \in {O_WRONLY, O_RDWR}
    IN  IF mode = O_RDONLY /\ trunc THEN Done(f, Error("EACCES"))
        ELSE IF mode \notin {O_RDONLY, O_WRONLY, O_RDWR} THEN Done(f, Error("EINVAL"))
        ELSE IF write /\ ~f.writable THEN Done(f, Error("EROFS"))
        ELSE IF ino \notin DOMAIN f.inodes THEN Done(f, Error("ENOENT"))
        ELSE
            LET fh == FileHandleAlloc_alloc(f.fh_alloc)
            IN  Done([f EXCEPT !.fh_alloc = fh,
                               !.inodes[ino].open_handles =
                                    insert(@, fh, FileHandle_new(read, write))],
                     Opened(fh))

\* opendir creating the handle before it looks at the ino.
opendir_allocates_first(f, ino) ==
    LET out == create_dir_handle(f)
    IN  IF ino # FUSE_ROOT_ID THEN Done(out.fs, Error("ENOTDIR"))
        ELSE Done(out.fs, Opened(out.fh))

opendir(f, ino) ==
    IF ino # FUSE_ROOT_ID THEN Done(f, Error("ENOTDIR"))
    ELSE LET out == create_dir_handle(f)
         IN  Done(out.fs, Opened(out.fh))

read(f, ino, fh, offset, size) ==
    IF ino \notin DOMAIN f.inodes THEN Done(f, Error("ENOENT"))
    ELSE IF fh \notin DOMAIN f.inodes[ino].open_handles THEN Done(f, Error("EBADF"))
    ELSE IF can_read(f.inodes[ino].open_handles[fh])
    THEN Done(f, InodeData_read(f.inodes[ino].data, offset, size))
    ELSE Done(f, Error("EACCES"))

write(f, ino, fh, offset, data) ==
    IF ~f.writable THEN Done(f, Error("EROFS"))
    ELSE IF ino \notin DOMAIN f.inodes THEN Done(f, Error("ENOENT"))
    ELSE IF fh \notin DOMAIN f.inodes[ino].open_handles THEN Done(f, Error("EBADF"))
    ELSE IF can_write(f.inodes[ino].open_handles[fh])
    THEN LET out == InodeData_write(f.inodes[ino].data, offset, data)
         IN  Done([f EXCEPT !.inodes[ino].data = out.data], out.reply)
    ELSE Done(f, Error("EACCES"))

\* readdir handing out each entry's own index as the offset to resume from.
readdir_resumes_at_entry(f, ino, fh, offset, room) ==
    IF ino # FUSE_ROOT_ID THEN Done(f, Error("ENOENT"))
    ELSE IF fh \notin DOMAIN f.dir_handles THEN Done(f, Error("EBADF"))
    ELSE
        LET entries == f.dir_handles[fh].entries
            from == IF offset < 0 THEN Len(entries) ELSE Min(offset, Len(entries))
            upto == Min(Len(entries), from + room)
        IN  Done(f, [tag |-> "directory",
                     entries |-> [k \in 1..(upto - from) |->
                                    <<entries[from + k][1], from + k - 1,
                                      entries[from + k][2], entries[from + k][3]>>]])

\* readdir: the entries from index offset on (none when offset is negative,
\* which is a huge usize), each with the offset of the next; room is the
\* number of entries the reply buffer takes before reply.add reports it full.
readdir(f, ino, fh, offset, room) ==
    IF ino # FUSE_ROOT_ID THEN Done(f, Error("ENOENT"))
    ELSE IF fh \notin DOMAIN f.dir_handles THEN Done(f, Error("EBADF"))
    ELSE
        LET entries == f.dir_handles[fh].entries
            from == IF offset < 0 THEN Len(entries) ELSE Min(offset, Len(entries))
            upto == Min(Len(entries), from + room)
        IN  Done(f, [tag |-> "directory",
                     entries |-> [k \in 1..(upto - from) |->
                                    <<entries[from + k][1], from + k,
                                      entries[from + k][2], entries[from + k][3]>>]])

releasedir(f, ino, fh) ==
    IF fh \in DOMAIN f.dir_handles
    THEN Done([f EXCEPT !.dir_handles = remove(@, fh)], Ok)
    ELSE Done(f, Error("EBADF"))

release(f, ino, fh) ==
    IF ino \notin DOMAIN f.inodes THEN Done(f, Error("ENOENT"))
    ELSE IF fh \in DOMAIN f.inodes[ino].open_handles
    THEN LET out == gc([f EXCEPT !.inodes[ino].open_handles = remove(@, fh)], ino)
         IN  [Done(out.fs, Ok) EXCEPT
                !.discarded = {out.removed[i] : i \in 1..Len(out.removed)}]
    ELSE Done(f, Error("EBADF"))

\* size and fh are Options; mode, uid, gid, the times and flags are not read.
setattr(f, ino, size, fh) ==
    IF ino \notin DOMAIN f.inodes THEN Done(f, Error("ENOENT"))
    ELSE IF size = None THEN Done(f, Error("ENOSYS"))
    ELSE IF ~f.writable THEN Done(f, Error("EROFS"))
    ELSE
        LET inode == f.inodes[ino]
            target == size[1]
        IN  IF /\ fh # None
               /\ fh[1] \in DOMAIN inode.open_handles
               /\ ~can_write(inode.open_handles[fh[1]])
            THEN Done(f, Error("EACCES"))
            ELSE IF inode.data.kind = "Chunk"
            THEN
                IF target >= MAX_CHUNK_LEN THEN Done(f, Error("EFBIG"))
                ELSE
                    LET resized ==
                            [inode EXCEPT !.data.bytes = resize(@, target, 0)]
                    IN  Done([f EXCEPT !.inodes[ino] = resized],
                             Attr(Inode_attr(resized, f.writable, f.uid, f.gid)))
            ELSE Done(f, Attr(Inode_attr(inode, f.writable, f.uid, f.gid)))

\* The loop of unlink without `inode.linked = false`.
RECURSIVE unlink_loop_keeps_linked(_, _)
unlink_loop_keeps_linked(acc, inos) ==
    IF inos = << >> THEN acc
    ELSE
        LET ino == Head(inos)
        IN  IF ino \notin DOMAIN acc.fs.inodes
            THEN unlink_loop_keeps_linked(acc, Tail(inos))
            ELSE
                LET out == gc(acc.fs, ino)
                IN  unlink_loop_keeps_linked(
                        [fs |-> out.fs,
                         to_delete |-> Append(acc.to_delete,
                                              DeletionInfo_from(acc.fs.inodes[ino])),
                         discarded |-> acc.discarded
                                        \cup {out.removed[i] : i \in 1..Len(out.removed)}],
                        Tail(inos))

\* The loop of unlink over the inos of the removed link.
RECURSIVE unlink_loop(_, _)
unlink_loop(acc, inos) ==
    IF inos = << >> THEN acc
    ELSE
        LET ino == Head(inos)
        IN  IF ino \notin DOMAIN acc.fs.inodes THEN unlink_loop(acc, Tail(inos))
            ELSE
                LET f1 == [acc.fs EXCEPT !.inodes[ino].linked = FALSE]
                    out == gc(f1, ino)
                IN  unlink_loop(
                        [fs |-> out.fs,
                         to_delete |-> Append(acc.to_delete,
                                              DeletionInfo_from(f1.inodes[ino])),
                         discarded |-> acc.discarded
                                        \cup {out.removed[i] : i \in 1..Len(out.removed)}],
                        Tail(inos))

\* The names delete invalidates for to_delete, in order.
RECURSIVE delete_all(_, _)
delete_all(f, to_delete) ==
    IF to_delete = << >> THEN << >>
    ELSE delete(f, Head(to_delete)) \o delete_all(f, Tail(to_delete))

\* unlink also freeing the chunk in the RegionFile the adapter holds.
unlink_frees_chunk(f, parent, name) ==
    IF parent # FUSE_ROOT_ID THEN Done(f, Error("ENOENT"))
    ELSE
        LET parsed == FileKey_parse(name)
        IN  IF parsed.panicked THEN Panicked(f)
            ELSE IF parsed.value = None THEN Done(f, Error("ENOENT"))
            ELSE
                LET key == parsed.value[1]
                IN  IF ~is_chunk(key.kind) THEN Done(f, Error("EACCES"))
                    ELSE IF <<key.x, key.z>> \notin DOMAIN f.links
                    THEN Done(f, Error("ENOENT"))
                    ELSE
                        LET inos == f.links[<<key.x, key.z>>]
                            f1 == [f EXCEPT !.links = remove(@, <<key.x, key.z>>),
                                            !.region = free_chunk(@, key.x, key.z)]
                            out == unlink_loop([fs |-> f1, to_delete |-> << >>,
                                                discarded |-> {}],
                                               InoSet_iter(inos))
                        IN  IF out.to_delete # << >>
                            THEN [Done(out.fs, Ok) EXCEPT
                                    !.discarded = out.discarded,
                                    !.inval = delete_all(out.fs, out.to_delete)]
                            ELSE Done(out.fs, Error("ENOENT"))

unlink(f, parent, name) ==
    IF parent # FUSE_ROOT_ID THEN Done(f, Error("ENOENT"))
    ELSE
        LET parsed == FileKey_parse(name)
        IN  IF parsed.panicked THEN Panicked(f)
            ELSE IF parsed.value = None THEN Done(f, Error("ENOENT"))
            ELSE
                LET key == parsed.value[1]
                IN  IF ~is_chunk(key.kind) THEN Done(f, Error("EACCES"))
                    ELSE IF <<key.x, key.z>> \notin DOMAIN f.links
                    THEN Done(f, Error("ENOENT"))
                    ELSE
                        LET inos == f.links[<<key.x, key.z>>]
                            f1 == [f EXCEPT !.links = remove(@, <<key.x, key.z>>)]
                            out == unlink_loop([fs |-> f1, to_delete |-> << >>,
                                                discarded |-> {}],
                                               InoSet_iter(inos))
                        IN  IF out.to_delete # << >>
                            THEN [Done(out.fs, Ok) EXCEPT
                                    !.discarded = out.discarded,
                                    !.inval = delete_all(out.fs, out.to_delete)]
                            ELSE Done(out.fs, Error("ENOENT"))

(***************************************************************************)
(* A mount session: run_mount, then the kernel's requests one at a time    *)
(***************************************************************************)
\* Requests explored per session.
MaxOps == 3
MaxCeilingSteps == 3
MaxClock == 4
MaxBits == 5
MaxRun == 3

\* Region files to mount: one holding a chunk at (0, 0), one holding chunks
\* at (0, 0) and (3, 5), both as write_out leaves them.
OneChunkRegion ==
    write_chunk(RegionFile_new(ZeroFile).region, 0, 0, <<170, 187>>, Zlib,
                [secs |-> 1700000000, nanos |-> 0])
TwoChunkRegion ==
    write_chunk(OneChunkRegion, 3, 5, Bytes(SECTOR_LEN - 5), GZip,
                [secs |-> 1700000001, nanos |-> 0])
MountFiles ==
    {write_out(OneChunkRegion, ZeroFile, TRUE).file,
     write_out(TwoChunkRegion, ZeroFile, TRUE).file}

\* The requests' arguments.
FsNames ==
    {make_fname(kind, c[1], c[2]) : kind \in FileKinds, c \in Coords}
        \cup {<<"x", "0", "z", "0", ".", "t", "x", "t">>, <<"U+00E9", "n", "b", "t">>}
Parents == {FUSE_ROOT_ID, FUSE_ROOT_ID + 1}
\* The root, every ino handed out so far and one that never was.
Inos == {FUSE_ROOT_ID, fs.ino_alloc}
            \cup {InoSet_iter(issued[i])[k] : i \in 1..Len(issued), k \in 1..2}
\* Every handle handed out so far and one that never was.
Fhs == 1..(fs.fh_alloc + 1)
ForgetCounts == {1, 2}
\* Either profile until an underflow has wrapped, the wrapping one after.
BuildProfiles == IF fs.overflow_checks = None THEN BOOLEAN ELSE {fs.overflow_checks[1]}
OpenFlags == {O_RDONLY, O_WRONLY, O_RDWR, O_RDONLY + O_TRUNC, O_ACCMODE}
Modes == {S_IFREG + 420, S_IFDIR + 493}
MknodTimes == {[secs |-> 1700000002, nanos |-> 250]}
ReadRanges == {<<-1, 1>>, <<0, 4>>, <<1, 1>>}
WriteInputs ==
    {<<-1, <<65>> >>, <<0, <<65>> >>, <<MAX_CHUNK_LEN - 1, <<65>> >>,
     <<0, as_bytes(W_zstd \o <<"\n">>)>>, <<1, as_bytes(W_zstd)>>, <<0, <<255>> >>}
Sizes == {None, Some(0), Some(3), Some(MAX_CHUNK_LEN)}
DirOffsets == {-1, 0, 3}
DirRooms == {1, 8}

InitFS ==
    /\ file \in MountFiles
    /\ region = RegionFile_new(file).region
    /\ \E writable \in BOOLEAN :
        LET new == SmithyFS_new(region, 1000, 1000, writable)
        IN  /\ fs = install_notifier(new.fs)
            /\ issued = new.issued
    /\ last = [op |-> "new", reply |-> [tag |-> "none"], discarded |-> {}, inval |-> << >>]
    /\ steps = 0
    /\ arg = None
    /\ ret = None

\* The session runs handler op, whose outcome is out.
Handled(op, out) ==
    /\ fs' = out.fs
    /\ issued' = issued \o out.issued
    /\ last' = [op |-> op, reply |-> out.reply,
                discarded |-> out.discarded, inval |-> out.inval]
    /\ steps' = steps + 1
    /\ UNCHANGED <<region, file, arg, ret>>

Serving == steps < MaxOps /\ ~fs.panicked

Lookup ==
    /\ Serving
    /\ \E parent \in Parents, name \in FsNames :
        Handled("lookup", lookup(fs, parent, name))

Forget ==
    /\ Serving
    /\ \E ino \in Inos, nlookup \in ForgetCounts, overflow_checks \in BuildProfiles :
        Handled("forget", forget(fs, ino, nlookup, overflow_checks))

Getattr ==
    /\ Serving
    /\ \E ino \in Inos : Handled("getattr", getattr(fs, ino))

Mknod ==
    /\ Serving
    /\ \E parent \in Parents, name \in FsNames, mode \in Modes, now \in MknodTimes :
        Handled("mknod", mknod(fs, parent, name, mode, now))

Open ==
    /\ Serving
    /\ \E ino \in Inos, flags \in OpenFlags : Handled("open", open(fs, ino, flags))

Opendir ==
    /\ Serving
    /\ \E ino \in Inos : Handled("opendir", opendir(fs, ino))

Read ==
    /\ Serving
    /\ \E ino \in Inos, fh \in Fhs, range \in ReadRanges :
        Handled("read", read(fs, ino, fh, range[1], range[2]))

Write ==
    /\ Serving
    /\ \E ino \in Inos, fh \in Fhs, w \in WriteInputs :
        Handled("write", write(fs, ino, fh, w[1], w[2]))

Readdir ==
    /\ Serving
    /\ \E ino \in Inos, fh \in Fhs, offset \in DirOffsets, room \in DirRooms :
        Handled("readdir", readdir(fs, ino, fh, offset, room))

Releasedir ==
    /\ Serving
    /\ \E ino \in Inos, fh \in Fhs : Handled("releasedir", releasedir(fs, ino, fh))

Release ==
    /\ Serving
    /\ \E ino \in Inos, fh \in Fhs : Handled("release", release(fs, ino, fh))

Setattr ==
    /\ Serving
    /\ \E ino \in Inos, size \in Sizes, fh \in {None} \cup {Some(h) : h \in Fhs} :
        Handled("setattr", setattr(fs, ino, size, fh))

Unlink ==
    /\ Serving
    /\ \E parent \in Parents, name \in FsNames :
        Handled("unlink", unlink(fs, parent, name))

NextFS ==
    \/ Lookup \/ Forget \/ Getattr \/ Mknod \/ Open \/ Opendir \/ Read
    \/ Write \/ Readdir \/ Releasedir \/ Release \/ Setattr \/ Unlink

SpecFS == InitFS /\ [][NextFS]_vars

(***************************************************************************)
(* Claims about the adapter's inode table                                  *)
(***************************************************************************)
\* The inode is unlinked, the kernel holds no lookup of it and no handle
\* on it is open.
Unreferenced(inode) ==
    /\ inode.linked = FALSE
    /\ inode.nlookup = 0
    /\ DOMAIN inode.open_handles = {}

\* No inode of the table is unreferenced.
C7_NoneLeftBehind ==
    \A ino \in DOMAIN fs.inodes : ~Unreferenced(fs.inodes[ino])

\* Every inode a request takes out of the table is unreferenced when taken.
C7_Step ==
    \A ino \in (DOMAIN fs.inodes) \ (DOMAIN fs'.inodes) :
        \E d \in last'.discarded : d.ino = ino /\ Unreferenced(d)

\* C7: after every request an inode that was created is absent from the
\* inode table iff it is unlinked, has nlookup = 0 and has no open handle:
\* none such stays in the table, and none is removed while it is linked,
\* looked up or open.
C7_InodeLifetime == [](C7_NoneLeftBehind) /\ [][C7_Step]_vars

\* C7 witness: a release has just discarded an unlinked inode whose handle
\* had kept it in the table, while its sibling had already gone.
C7_Witness ==
    /\ last.op = "release"
    /\ last.reply = Ok
    /\ \E d \in last.discarded :
        /\ Unreferenced(d)
        /\ d.ino \notin DOMAIN fs.inodes
        /\ d.ino + 1 \notin DOMAIN fs.inodes
        /\ <<d.x, d.z>> \notin DOMAIN fs.links

\* The inos handed out so far, in order.
IssuedInos ==
    [n \in 1..(2 * Len(issued)) |-> InoSet_iter(issued[(n + 1) \div 2])[2 - (n % 2)]]

\* C8: every ino the allocator hands out differs from FUSE_ROOT_ID and from
\* every ino handed out before, so the inode under an ino is the one that
\* ino was allocated for.
C8_InosNeverReused ==
    /\ \A n \in 1..Len(IssuedInos) :
        /\ IssuedInos[n] # FUSE_ROOT_ID
        /\ \A m \in 1..(n - 1) : IssuedInos[m] # IssuedInos[n]
    /\ \A ino \in DOMAIN fs.inodes :
        /\ fs.inodes[ino].ino = ino
        /\ \E n \in 1..Len(IssuedInos) : IssuedInos[n] = ino

\* C8 witness: mknod has created a file at coordinates whose earlier inodes
\* were discarded, under a new pair.
C8_Witness ==
    /\ last.op = "mknod"
    /\ last.reply.tag = "entry"
    /\ \E i \in 1..(Len(issued) - 1) :
        /\ issued[i].chunk_ino \notin DOMAIN fs.inodes
        /\ issued[i].info_ino \notin DOMAIN fs.inodes
        /\ issued[Len(issued)].chunk_ino \in DOMAIN fs.inodes
        /\ fs.inodes[issued[Len(issued)].chunk_ino].x = 0
        /\ fs.inodes[issued[Len(issued)].chunk_ino].z = 0
        /\ i = 1

\* C9: for every (x, z) in links both inos are in the inode table, carry
\* the coordinates (x, z) and are linked.
C9_LinksResolve ==
    \A c \in DOMAIN fs.links :
        \A ino \in {fs.links[c].chunk_ino, fs.links[c].info_ino} :
            /\ ino \in DOMAIN fs.inodes
            /\ fs.inodes[ino].x = c[1]
            /\ fs.inodes[ino].z = c[2]
            /\ fs.inodes[ino].linked = TRUE

\* C9 witness: an unlink has removed one link and left another, and an
\* inode of the removed link is still in the table.
C9_Witness ==
    /\ last.op = "unlink"
    /\ last.reply = Ok
    /\ DOMAIN fs.links # {}
    /\ \E ino \in DOMAIN fs.inodes :
        /\ ~fs.inodes[ino].linked
        /\ <<fs.inodes[ino].x, fs.inodes[ino].z>> \notin DOMAIN fs.links

\* What another request can observe of the adapter.
Observable(f) == <<f.links, f.inodes, f.dir_handles, f.ino_alloc, f.fh_alloc>>

C10_Step == last'.reply.tag = "error" => Observable(fs') = Observable(fs)

\* C10: a request answered with an errno leaves links, every inode (data,
\* mtime, linked, nlookup, open handles), the directory handles and the ino
\* and file-handle counters as they were.
C10_FailedRequestsChangeNothing == [][C10_Step]_vars

\* C10 witness: a write through an open writable handle was refused EFBIG.
C10_Witness ==
    /\ last.op = "write"
    /\ last.reply = Error("EFBIG")
    /\ \E ino \in DOMAIN fs.inodes :
        \E fh \in DOMAIN fs.inodes[ino].open_handles :
            can_write(fs.inodes[ino].open_handles[fh])

(***************************************************************************)
(* Claims about unlink                                                     *)
(***************************************************************************)
\* unlink of the .nbt name of slot c succeeds and takes the slot out of the
\* namespace: the link is gone, both inodes are unlinked where they remain,
\* and lookup of either name replies ENOENT.
UnlinkRemovesSlot(f, c) ==
    LET out == unlink(f, FUSE_ROOT_ID, make_fname("Chunk", c[1], c[2]))
    IN  out.reply = Ok =>
            /\ c \in DOMAIN f.links
            /\ DOMAIN out.fs.links = (DOMAIN f.links) \ {c}
            /\ \A ino \in {f.links[c].chunk_ino, f.links[c].info_ino} :
                ino \in DOMAIN out.fs.inodes => out.fs.inodes[ino].linked = FALSE
            /\ \A kind \in FileKinds :
                lookup(out.fs, FUSE_ROOT_ID, make_fname(kind, c[1], c[2])).reply
                    = Error("ENOENT")

\* unlink of the .cmp name of slot c replies EACCES and changes nothing.
UnlinkRefusesInfo(f, c) ==
    unlink(f, FUSE_ROOT_ID, make_fname("CompressionInfo", c[1], c[2]))
        = Done(f, Error("EACCES"))

\* C11: in every state of a session, a successful unlink of x<X>z<Z>.nbt
\* removes slot (X, Z) for both kinds at once (both inodes unlinked, lookup
\* of either name ENOENT), and unlink of x<X>z<Z>.cmp replies EACCES and
\* removes nothing.
C11_UnlinkRemovesBothNames ==
    ~fs.panicked =>
        \A c \in Coords : UnlinkRemovesSlot(fs, c) /\ UnlinkRefusesInfo(fs, c)

\* C11 witness: an unlink has just replied OK; an inode of the removed slot
\* is still in the table, unlinked, and neither of its names resolves.
C11_Witness ==
    /\ last.op = "unlink"
    /\ last.reply = Ok
    /\ \E ino \in DOMAIN fs.inodes :
        /\ fs.inodes[ino].linked = FALSE
        /\ \A kind \in FileKinds :
            lookup(fs, FUSE_ROOT_ID,
                   make_fname(kind, fs.inodes[ino].x, fs.inodes[ino].z)).reply
                = Error("ENOENT")

(***************************************************************************)
(* The notifier cell at unlink.  SmithyFS::new leaves the cell empty and   *)
(* run_mount fills it through the shared mutex; delete only try_locks it.  *)
(* SpecNotify runs the session from each state the cell can be found in:   *)
(* empty, filled with the lock free, filled with the lock held elsewhere.  *)
(***************************************************************************)
NotifierCells ==
    {[notifier |-> None, locked |-> FALSE],
     [notifier |-> Some("notifier"), locked |-> FALSE],
     [notifier |-> Some("notifier"), locked |-> TRUE]}

InitNotify ==
    /\ file = write_out(TwoChunkRegion, ZeroFile, TRUE).file
    /\ region = RegionFile_new(file).region
    /\ \E cell \in NotifierCells :
        LET new == SmithyFS_new(region, 1000, 1000, TRUE)
        IN  /\ fs = [new.fs EXCEPT !.notifier = cell.notifier,
                                   !.notifier_locked = cell.locked]
            /\ issued = new.issued
    /\ last = [op |-> "new", reply |-> [tag |-> "none"], discarded |-> {}, inval |-> << >>]
    /\ steps = 0
    /\ arg = None
    /\ ret = None

SpecNotify == InitNotify /\ [][NextFS]_vars

\* s holds each of the names of slot c exactly once and nothing else.
BothNamesOnce(s, c) ==
    /\ Len(s) = 2
    /\ {s[i] : i \in 1..Len(s)} = {make_fname(kind, c[1], c[2]) : kind \in FileKinds}

\* C12: a successful unlink of a slot's .nbt name issues exactly one
\* inval_entry(root, name) for each of the two removed names when the notifier
\* is installed and its lock is free; when the lock is held elsewhere or no
\* notifier is installed it issues none, and still replies OK and still
\* removes the link and unlinks both inodes.
C12_UnlinkNotifies ==
    ~fs.panicked =>
        \A c \in Coords :
            LET out == unlink(fs, FUSE_ROOT_ID, make_fname("Chunk", c[1], c[2]))
            IN  c \in DOMAIN fs.links =>
                    /\ out.reply = Ok
                    /\ c \notin DOMAIN out.fs.links
                    /\ \A ino \in {fs.links[c].chunk_ino, fs.links[c].info_ino} :
                        ino \in DOMAIN out.fs.inodes
                            => out.fs.inodes[ino].linked = FALSE
                    /\ IF fs.notifier # None /\ ~fs.notifier_locked
                       THEN BothNamesOnce(out.inval, c)
                       ELSE out.inval = << >>

\* C12 witness: an unlink has replied OK while the notifier's lock was held
\* elsewhere; nothing was invalidated and unlinked inodes remain.
C12_Witness ==
    /\ last.op = "unlink"
    /\ last.reply = Ok
    /\ last.inval = << >>
    /\ fs.notifier # None
    /\ fs.notifier_locked
    /\ \E ino \in DOMAIN fs.inodes : fs.inodes[ino].linked = FALSE

(***************************************************************************)
(* Claims about write_chunk and delete_chunk                               *)
(***************************************************************************)
\* write_chunk(x, z, data, ...) on r gets past the length check and obtains
\* a run from allocate_run.
Stored(r, x, z, data) ==
    /\ Len(data) < MAX_CHUNK_LEN
    /\ allocate_run(free_chunk(r, x, z).occupied_sectors,
                    div_ceil(Len(data) + ChunkInternalMeta_LEN, SECTOR_LEN)).addr # None

\* The slots of the model other than the one (x, z) addresses.
OtherSlots(x, z) == {c \in Coords : coords_to_idx(c[1], c[2]) # coords_to_idx(x, z)}

\* C13: after a write_chunk(x, z, data, codec, mtime) with len(data) <
\* MAX_CHUNK_LEN whose allocation succeeds, lookup_chunk(x, z) returns exactly
\* data, codec and mtime cut to whole seconds, also for empty data and for a
\* slot that already held a chunk; lookup_chunk of every other slot returns
\* what it returned before.
C13_Step ==
    (last'.op = "write_chunk" /\ Stored(region, last'.x, last'.z, last'.data)) =>
        /\ lookup_chunk(region', last'.x, last'.z)
            = Some([x |-> last'.x % 32,
                    z |-> last'.z % 32,
                    mtime |-> [secs |-> last'.mtime.secs, nanos |-> 0],
                    compression_type |-> last'.ct,
                    data |-> last'.data])
        /\ \A c \in OtherSlots(last'.x, last'.z) :
            lookup_chunk(region', c[1], c[2]) = lookup_chunk(region, c[1], c[2])

former_run(r, x, z) ==
    LET header == lookup_header(r, x, z)
    IN  IF valid(header) THEN run_of(header.address[1]) ELSE {}

\* Header, payload and occupied bits of every slot other than (x, z) are in
\* r2 as they are in r1.
OthersUntouched(r1, r2, x, z) ==
    \A c \in OtherSlots(x, z) :
        /\ lookup_header(r2, c[1], c[2]) = lookup_header(r1, c[1], c[2])
        /\ lookup_chunk(r2, c[1], c[2]) = lookup_chunk(r1, c[1], c[2])
        /\ \A i \in former_run(r1, c[1], c[2]) : occupied(r2, i) = occupied(r1, i)

\* C14: a write_chunk with len(data) >= MAX_CHUNK_LEN stores nothing: the
\* target slot is empty afterwards (lookup_chunk is None and none of its
\* former sectors is occupied) whether or not it held a chunk, and header,
\* payload and occupied bits of every other slot are unchanged.
C14_Step ==
    (last'.op = "write_chunk" /\ Len(last'.data) >= MAX_CHUNK_LEN) =>
        /\ lookup_chunk(region', last'.x, last'.z) = None
        /\ \A i \in former_run(region, last'.x, last'.z) : ~occupied(region', i)
        /\ OthersUntouched(region, region', last'.x, last'.z)

C14_OversizedWriteStoresNothing == [][C14_Step]_vars

\* C14 witness: an oversized write has emptied a slot that a write had
\* filled (its header still carries the write's mtime) while the other slot
\* holds a chunk.
C14_Witness ==
    /\ last.op = "write_chunk"
    /\ Len(last.data) >= MAX_CHUNK_LEN
    /\ lookup_chunk(region, last.x, last.z) = None
    /\ header_mtime(lookup_header(region, last.x, last.z)).secs
        \in {t.secs : t \in WriteTimes}
    /\ \E c \in OtherSlots(last.x, last.z) : lookup_chunk(region, c[1], c[2]) # None

\* C15: after delete_chunk(x, z) on a slot holding a chunk, lookup_chunk is
\* None, the slot's mtime is the time of the delete, every sector of the
\* former run is clear in occupied_sectors and is handed out again by
\* allocate_run (a request of the run's length is placed at or below the run,
\* and exactly on it when no lower sector is free), and no other slot's header
\* or payload has changed; on an empty slot only the slot's mtime changes.
C15_Step ==
    last'.op = "delete_chunk" =>
        LET x == last'.x
            z == last'.z
            idx == coords_to_idx(x, z)
            before == lookup_header(region, x, z)
        IN  /\ lookup_chunk(region', x, z) = None
            /\ header_mtime(lookup_header(region', x, z))
                = [secs |-> last'.now.secs, nanos |-> 0]
            /\ OthersUntouched(region, region', x, z)
            /\ valid(before) =>
                LET addr == before.address[1]
                    again == allocate_run(region'.occupied_sectors, addr.len)
                IN  /\ \A i \in run_of(addr) :
                        i < Len(region'.occupied_sectors) /\ ~occupied(region', i)
                    /\ again.addr # None
                    /\ again.addr[1].offset <= addr.offset
                    /\ (\A i \in 0..(addr.offset - HEADER_SECTORS - 1) :
                            occupied(region', i))
                        => again.addr[1] = addr
            /\ ~valid(before) =>
                region' = [region EXCEPT
                            !.headers[idx].mtime = last'.now.secs]

C15_DeleteFreesSlot == [][C15_Step]_vars

\* C15 witness: a delete has just emptied a slot; its sectors are clear
\* inside the bitmap below the run of the other slot's chunk.
C15_Witness ==
    /\ last.op = "delete_chunk"
    /\ lookup_chunk(region, last.x, last.z) = None
    /\ lookup_header(region, last.x, last.z).mtime = last.now.secs
    /\ \E c \in OtherSlots(last.x, last.z) :
        /\ lookup_chunk(region, c[1], c[2]) # None
        /\ \E i \in 0..(Len(region.occupied_sectors) - 1) :
            /\ ~occupied(region, i)
            /\ \A j \in former_run(region, c[1], c[2]) : i < j

(***************************************************************************)
(* The region engine on files as RegionFile::new finds them                *)
(***************************************************************************)
\* One sector holding `bytes`, zero-padded.
Sector(bytes) == bytes \o Zeros(SECTOR_LEN - Len(bytes))

\* A file whose header tables give slot (0, 0) the location (offset0, len0)
\* and slot (3, 5) the location (offset1, len1).
FileWith(offset0, len0, offset1, len1, payload) ==
    [locations |->
        [idx \in Slots |->
            IF idx = coords_to_idx(0, 0) THEN <<0, 0, offset0, len0>>
            ELSE <<0, 0, offset1, len1>>],
     timestamps |-> [idx \in Slots |-> be_bytes(1600000000)],
     payload |-> payload]

\* The files RegionFile::new is given: the empty region; one chunk in a file
\* that ends short of the sector boundary; two chunks side by side; and two
\* chunks whose headers overlap, (0, 0) on sectors 2..3 and (3, 5) on sector 3.
RegionFiles ==
    {ZeroFile,
     FileWith(2, 1, 0, 0, <<0, 0, 0, 3, 2, 170, 187>>),
     FileWith(2, 1, 3, 1, Sector(<<0, 0, 0, 3, 2, 170, 187>>)
                            \o Sector(<<0, 0, 0, 2, 1, 204>>)),
     FileWith(2, 2, 3, 1, Sector(<<0, 0, 0, 3, 2, 170, 187>>)
                            \o Sector(<<0, 0, 0, 2, 1, 204>>))}

InitRegionFiles ==
    /\ file \in RegionFiles
    /\ ~RegionFile_new(file).panicked
    /\ region = RegionFile_new(file).region
    /\ last = [op |-> "new"]
    /\ steps = 0
    /\ fs = None
    /\ issued = << >>
    /\ arg = None
    /\ ret = None

SpecRegionFiles == InitRegionFiles /\ [][NextRegion]_vars

\* The two slices lookup_chunk takes for slot (x, z) are in range: the run
\* inside chunk_data, and the payload (5 .. 5 + length - 1) inside the run.
lookup_in_bounds(r, x, z) ==
    LET header == lookup_header(r, x, z)
    IN  valid(header) =>
            LET addr == header.address[1]
                start == (addr.offset - HEADER_SECTORS) * SECTOR_LEN
                len == addr.len * SECTOR_LEN
            IN  /\ start + len <= Len(r.chunk_data)
                /\ LET meta == ChunkInternalMeta_read(slice(r.chunk_data, start, start + len))
                   IN  /\ meta.length >= 1
                       /\ 5 + (meta.length - 1) <= len

\* occupied_sectors and dirty_sectors have the same length, and chunk_data
\* holds at least (offset + len - 2) sectors for every valid header.
C17_Lengths ==
    /\ Len(region.occupied_sectors) = Len(region.dirty_sectors)
    /\ \A idx \in Slots :
        valid(region.headers[idx]) =>
            Len(region.chunk_data)
                >= (region.headers[idx].address[1].offset
                        + region.headers[idx].address[1].len - 2) * SECTOR_LEN

\* C17: after RegionFile::new and after every write_chunk, delete_chunk and
\* write_out, occupied_sectors and dirty_sectors have the same length,
\* chunk_data holds at least (offset + len - 2) sectors for every valid
\* header, and lookup_chunk never slices out of range.
C17_LookupStaysInside ==
    /\ C17_Lengths
    /\ \A c \in Coords : lookup_in_bounds(region, c[1], c[2])

(***************************************************************************)
(* Claims about file contents                                              *)
(***************************************************************************)
\* What reads of the inode are served from: the Chunk buffer, or the
\* selector line rendered from the Info codec.
contents(f, ino) ==
    IF f.inodes[ino].data.kind = "Chunk" THEN f.inodes[ino].data.bytes
    ELSE as_bytes(make_selector_string(f.inodes[ino].data.ct))

\* A byte buffer after data is written at offset: the gap, if any, is zero.
Written(buf, offset, data) ==
    LET n == IF offset + Len(data) > Len(buf) THEN offset + Len(data) ELSE Len(buf)
    IN  [i \in 1..n |->
            IF offset < i /\ i <= offset + Len(data) THEN data[i - offset]
            ELSE IF i <= Len(buf) THEN buf[i] ELSE 0]

\* A byte buffer after truncation to n bytes: growth is zero.
Truncated(buf, n) == [i \in 1..n |-> IF i <= Len(buf) THEN buf[i] ELSE 0]

\* The bytes [offset, offset + size) of buf, clamped to its length.
Clamped(buf, offset, size) ==
    LET from == Min(offset, Len(buf))
        to == Min(offset + size, Len(buf))
    IN  [k \in 1..(to - from) |-> buf[from + k]]

\* g is f but for the data of inode ino.
OnlyDataOf(f, g, ino) ==
    /\ ino \in DOMAIN g.inodes
    /\ g = [f EXCEPT !.inodes[ino].data = g.inodes[ino].data]

BufferRanges == ReadRanges \cup {<<3, 2>>, <<1, 0>>}
BufferWrites == WriteInputs \cup {<<3, <<7, 8>> >>, <<0, as_bytes(W_gzip)>>}
BufferSizes == {0, 3, MAX_CHUNK_LEN}
HandleArgs(f, ino) == {None} \cup {Some(h) : h \in DOMAIN f.inodes[ino].open_handles}

\* getattr reports the length of the contents, and a read through a readable
\* handle replies the clamped range of the contents.
ReadsServeContents(f, ino) ==
    LET buf == contents(f, ino)
    IN  /\ getattr(f, ino).reply = Attr(stat_inode(f, f.inodes[ino]))
        /\ getattr(f, ino).reply.attr.size = Len(buf)
        /\ \A fh \in DOMAIN f.inodes[ino].open_handles, r \in BufferRanges :
            LET out == read(f, ino, fh, r[1], r[2])
            IN  /\ out.fs = f
                /\ (can_read(f.inodes[ino].open_handles[fh]) /\ r[1] >= 0) =>
                        out.reply = [tag |-> "data", data |-> Clamped(buf, r[1], r[2])]

\* Every successful write and truncate changes the inode's contents as it
\* changes a byte buffer and changes nothing else; a failed one changes
\* nothing.
BufferSemantics(f, ino) ==
    LET buf == contents(f, ino)
    IN  /\ \A fh \in DOMAIN f.inodes[ino].open_handles, w \in BufferWrites :
            LET out == write(f, ino, fh, w[1], w[2])
            IN  IF out.reply.tag = "written"
                THEN /\ OnlyDataOf(f, out.fs, ino)
                     /\ contents(out.fs, ino) = Written(buf, w[1], w[2])
                ELSE out.fs = f
        /\ \A fh \in HandleArgs(f, ino), n \in BufferSizes :
            LET out == setattr(f, ino, Some(n), fh)
            IN  IF out.reply.tag = "attr"
                THEN /\ OnlyDataOf(f, out.fs, ino)
                     /\ contents(out.fs, ino) = Truncated(buf, n)
                ELSE out.fs = f

\* An Info inode takes a successful write as a codec selection: afterwards
\* its contents are the selector line of the codec the written text names.
\* A truncate changes nothing.
SelectorSemantics(f, ino) ==
    /\ \A fh \in DOMAIN f.inodes[ino].open_handles, w \in BufferWrites :
        LET out == write(f, ino, fh, w[1], w[2])
        IN  IF out.reply.tag = "written"
            THEN /\ OnlyDataOf(f, out.fs, ino)
                 /\ out.fs.inodes[ino].data.kind = "CompressionInfo"
                 /\ Some(out.fs.inodes[ino].data.ct)
                        = parse_selector_string(from_utf8(w[2])[1])
            ELSE out.fs = f
    /\ \A fh \in HandleArgs(f, ino), n \in BufferSizes :
        setattr(f, ino, Some(n), fh).fs = f

\* No request other than write and setattr changes the contents of an inode
\* that stays in the table.
C16_Frame ==
    (fs # None /\ last'.op \notin {"write", "setattr"}) =>
        \A ino \in (DOMAIN fs.inodes) \cap (DOMAIN fs'.inodes) :
            fs'.inodes[ino].data = fs.inodes[ino].data

C16_AnyInode ==
    ~fs.panicked =>
        \A ino \in DOMAIN fs.inodes :
            ReadsServeContents(fs, ino) /\ BufferSemantics(fs, ino)

\* C16 as stated: for any inode, reads return the clamped range of the
\* buffer that the earlier successful writes and truncates produce, zero
\* where nothing was written, and getattr reports its length.
C16_ReadsSeeWrites == [](C16_AnyInode) /\ [][C16_Frame]_vars

C16_ByKind ==
    ~fs.panicked =>
        \A ino \in DOMAIN fs.inodes :
            /\ ReadsServeContents(fs, ino)
            /\ IF is_chunk(fs.inodes[ino].data.kind)
               THEN BufferSemantics(fs, ino)
               ELSE SelectorSemantics(fs, ino)

\* C16 amended: the statement holds for Chunk inodes.  For an Info inode a
\* read returns the clamped range of the selector line rendered from the
\* codec that the last successful write selected (or the mount gave),
\* getattr reports that line's length, and a truncate changes nothing.
C16_ReadsSeeWritesByKind == [](C16_ByKind) /\ [][C16_Frame]_vars

\* C16 witness: a write has just succeeded on a Chunk inode that is open
\* for reading, and a read of it returns the bytes now there.
C16_Witness ==
    /\ last.op = "write"
    /\ last.reply.tag = "written"
    /\ \E ino \in DOMAIN fs.inodes :
        /\ is_chunk(fs.inodes[ino].data.kind)
        /\ \E fh \in DOMAIN fs.inodes[ino].open_handles :
            /\ can_read(fs.inodes[ino].open_handles[fh])
            /\ can_write(fs.inodes[ino].open_handles[fh])
            /\ read(fs, ino, fh, 0, 4).reply.data = Clamped(contents(fs, ino), 0, 4)
            /\ read(fs, ino, fh, 0, 4).reply.data # << >>

(***************************************************************************)
(* A mount of a region file whose one chunk fills a run of 255 sectors,    *)
(* the longest a header can address.                                       *)
(***************************************************************************)
LongestRun == 255

OversizedFile ==
    FileWith(2, LongestRun, 0, 0,
             be_bytes(LongestRun * SECTOR_LEN - 4) \o <<2>>
                \o Bytes(LongestRun * SECTOR_LEN - 5))

InitOversized ==
    /\ file = OversizedFile
    /\ ~RegionFile_new(file).panicked
    /\ region = RegionFile_new(file).region
    /\ LET new == SmithyFS_new(region, 1000, 1000, TRUE)
       IN  /\ fs = install_notifier(new.fs)
           /\ issued = new.issued
    /\ last = [op |-> "new", reply |-> [tag |-> "none"], discarded |-> {}, inval |-> << >>]
    /\ steps = 0
    /\ arg = None
    /\ ret = None

SpecOversized == InitOversized /\ [][NextFS]_vars

\* C18: after the mount of a region file that RegionFile::new accepts and
\* after every adapter operation, every Chunk inode's buffer is at most
\* MAX_CHUNK_LEN bytes long.
C18_ChunkBuffersBounded ==
    \A ino \in DOMAIN fs.inodes :
        is_chunk(fs.inodes[ino].data.kind)
            => Len(fs.inodes[ino].data.bytes) <= MAX_CHUNK_LEN

(***************************************************************************)
(* Claims about forget and about read-only mounts                          *)
(***************************************************************************)
\* C19: a forget whose count exceeds the inode's nlookup is not fatal: the
\* adapter does not abort and no nlookup wraps around (a wrapped u64 is held
\* as a negative number).
C19_ForgetOvercountNotFatal ==
    last.op = "forget" =>
        /\ ~fs.panicked
        /\ \A ino \in DOMAIN fs.inodes : fs.inodes[ino].nlookup >= 0

\* The adapter as SmithyFS::new built it from the mounted region.
AsMounted == SmithyFS_new(region, fs.uid, fs.gid, fs.writable).fs

\* C20: on a read-only mount write, setattr with a size, mknod and unlink
\* all fail, and links, every Chunk buffer and every Info codec stay as built
\* at mount.
C20_ReadOnlyMountUnchanged ==
    (~fs.writable /\ ~fs.panicked) =>
        /\ last.op \in {"write", "setattr", "mknod", "unlink"}
            => last.reply.tag = "error"
        /\ fs.links = AsMounted.links
        /\ \A ino \in DOMAIN fs.inodes :
            fs.inodes[ino].data = AsMounted.inodes[ino].data

(***************************************************************************)
(* Claims about the lookup count                                           *)
(***************************************************************************)
\* C21: nlookup counts the entry replies sent for the inode less the counts
\* forgotten: the inode an entry reply names holds at least that reference,
\* and an inode that mknod has just created and answered with an entry holds
\* exactly one.
C21_NlookupCountsEntryReplies ==
    (~fs.panicked /\ last.reply.tag = "entry") =>
        /\ last.reply.attr.ino \in DOMAIN fs.inodes
        /\ fs.inodes[last.reply.attr.ino].nlookup >= 1
        /\ last.op = "mknod" => fs.inodes[last.reply.attr.ino].nlookup = 1

(***************************************************************************)
(* Claims about file handles                                               *)
(***************************************************************************)
\* The errnos whose condition, as the open contract lists them, holds of the
\* request.
OpenErrnos(f, ino, flags) ==
    LET mode == BitAnd(flags, O_ACCMODE)
    IN  {e \in {"EACCES", "EROFS", "ENOENT", "EINVAL"} :
            \/ e = "EACCES" /\ mode = O_RDONLY /\ BitAnd(flags, O_TRUNC) # 0
            \/ e = "EROFS" /\ mode \in {O_WRONLY, O_RDWR} /\ ~f.writable
            \/ e = "ENOENT" /\ ino \notin DOMAIN f.inodes
            \/ e = "EINVAL" /\ mode \notin {O_RDONLY, O_WRONLY, O_RDWR}}

\* Every handle of every inode of f.
AllHandles(f) == UNION {DOMAIN f.inodes[i].open_handles : i \in DOMAIN f.inodes}

\* open fails with an errno whose condition holds and then changes nothing;
\* when no condition holds it hands out a handle no inode has, on ino only.
OpenContract(f, ino, flags) ==
    LET out == open(f, ino, flags)
        errnos == OpenErrnos(f, ino, flags)
    IN  IF errnos # {}
        THEN out.reply \in {Error(e) : e \in errnos} /\ out.fs = f
        ELSE /\ out.reply.tag = "opened"
             /\ out.reply.fh \notin AllHandles(f)
             /\ out.fs = [f EXCEPT !.fh_alloc = out.reply.fh,
                                   !.inodes[ino].open_handles =
                                        insert(@, out.reply.fh,
                                               out.fs.inodes[ino].open_handles[out.reply.fh])]

\* The errno of a refused write: errno on a writable mount.  With
\* rofs_first, EROFS on a read-only mount, which write tests first.
WriteErrno(f, errno, rofs_first) ==
    IF rofs_first /\ ~f.writable THEN Error("EROFS") ELSE Error(errno)

\* The errno for a handle that inode ino does not have: EBADF.  With
\* gone_is_enoent, ENOENT when the inode is no longer in the table.
MissingErrno(f, ino, gone_is_enoent) ==
    IF gone_is_enoent /\ ino \notin DOMAIN f.inodes THEN "ENOENT" ELSE "EBADF"

\* Handle fh of inode ino in f is not usable any more once released.
DeadAfterRelease(f, ino, fh, as_coded) ==
    LET rel == release(f, ino, fh)
        errno == MissingErrno(rel.fs, ino, as_coded)
    IN  /\ rel.reply = Ok
        /\ \A r \in ReadRanges :
            read(rel.fs, ino, fh, r[1], r[2]) = Done(rel.fs, Error(errno))
        /\ \A w \in WriteInputs :
            write(rel.fs, ino, fh, w[1], w[2])
                = Done(rel.fs, WriteErrno(rel.fs, errno, as_coded))

\* What a handle that open(ino, flags) hands out can be used for.
HandleContract(f, ino, flags, as_coded) ==
    LET out == open(f, ino, flags)
        g == out.fs
        fh == out.reply.fh
        mode == BitAnd(flags, O_ACCMODE)
    IN  out.reply.tag = "opened" =>
            /\ mode = O_WRONLY =>
                \A r \in ReadRanges :
                    read(g, ino, fh, r[1], r[2]) = Done(g, Error("EACCES"))
            /\ mode = O_RDONLY =>
                \A w \in WriteInputs :
                    write(g, ino, fh, w[1], w[2])
                        = Done(g, WriteErrno(g, "EACCES", as_coded))
            /\ \A other \in (DOMAIN g.inodes) \ {ino} :
                /\ \A r \in ReadRanges :
                    read(g, other, fh, r[1], r[2]) = Done(g, Error("EBADF"))
                /\ \A w \in WriteInputs :
                    write(g, other, fh, w[1], w[2])
                        = Done(g, WriteErrno(g, "EBADF", as_coded))
            /\ DeadAfterRelease(g, ino, fh, as_coded)

HandleLaws(as_coded) ==
    ~fs.panicked =>
        /\ \A ino \in Inos, flags \in OpenFlags :
            OpenContract(fs, ino, flags) /\ HandleContract(fs, ino, flags, as_coded)
        /\ \A ino \in DOMAIN fs.inodes :
            \A fh \in DOMAIN fs.inodes[ino].open_handles :
                DeadAfterRelease(fs, ino, fh, as_coded)

\* C22 as stated: a read through an O_WRONLY handle and a write through an
\* O_RDONLY handle reply EACCES, a handle used on another inode or after its
\* release gives EBADF, and open replies EACCES, EROFS, ENOENT or EINVAL under
\* the listed conditions and allocates a handle only on success.
C22_HandlePermissions == HandleLaws(FALSE)

\* C22 amended: as stated, except that write tests the mount first, so on a
\* read-only mount every refused write replies EROFS, and that read and write
\* reply ENOENT instead of EBADF when the release discarded the inode.
C22_HandlePermissionsAsCoded == HandleLaws(TRUE)

\* C22 witness: a read through a handle that cannot read has just been
\* refused with EACCES.
C22_Witness ==
    /\ last.op = "read"
    /\ last.reply = Error("EACCES")
    /\ \E ino \in DOMAIN fs.inodes :
        \E fh \in DOMAIN fs.inodes[ino].open_handles :
            /\ ~can_read(fs.inodes[ino].open_handles[fh])
            /\ can_write(fs.inodes[ino].open_handles[fh])

(***************************************************************************)
(* Claims about setattr                                                    *)
(***************************************************************************)
\* Handle h is a writable handle of inode ino.
WritableHandleOf(f, ino, h) ==
    h \in DOMAIN f.inodes[ino].open_handles /\ can_write(f.inodes[ino].open_handles[h])

\* setattr(ino, size = n, fh) as the truncate contract has it: refused with
\* EACCES when a handle is supplied that is not writable, with EFBIG when a
\* Chunk target reaches MAX_CHUNK_LEN, and otherwise resizing a Chunk buffer
\* with zero fill; an Info codec never changes.
TruncateContract(f, ino, n, fh) ==
    LET out == setattr(f, ino, Some(n), fh)
        inode == f.inodes[ino]
    IN  IF fh # None /\ ~WritableHandleOf(f, ino, fh[1])
        THEN out = Done(f, Error("EACCES"))
        ELSE IF is_chunk(inode.data.kind)
        THEN IF n >= MAX_CHUNK_LEN
             THEN out = Done(f, Error("EFBIG"))
             ELSE /\ out.reply.tag = "attr"
                  /\ OnlyDataOf(f, out.fs, ino)
                  /\ out.fs.inodes[ino].data.bytes = Truncated(inode.data.bytes, n)
        ELSE out.fs = f /\ out.reply.tag = "attr"

\* C23: on a writable mount setattr with a size resizes a Chunk buffer to the
\* target, zero-filling growth, and with a supplied handle takes effect only
\* if that handle is writable (EACCES otherwise, EFBIG for a target >=
\* MAX_CHUNK_LEN, the buffer unchanged in both cases); an Info codec never
\* changes; setattr without a size replies ENOSYS.
C23_TruncateContract ==
    (fs.writable /\ ~fs.panicked) =>
        \A ino \in DOMAIN fs.inodes :
            \A fh \in {None} \cup {Some(h) : h \in AllHandles(fs)} :
                /\ setattr(fs, ino, None, fh) = Done(fs, Error("ENOSYS"))
                /\ \A n \in BufferSizes : TruncateContract(fs, ino, n, fh)

(***************************************************************************)
(* Claims about mknod                                                      *)
(***************************************************************************)
\* The errno the mknod contract gives the request, the first applicable of
\* EROFS, ENOENT, EPERM, EINVAL, EEXIST, or None when none applies.  A name
\* parses when FileKey::parse returns a key.
MknodErrno(f, parent, name, mode) ==
    LET parsed == FileKey_parse(name)
    IN  IF ~f.writable THEN Some("EROFS")
        ELSE IF parent # FUSE_ROOT_ID THEN Some("ENOENT")
        ELSE IF BitAnd(mode, S_IFMT) # S_IFREG THEN Some("EPERM")
        ELSE IF parsed.panicked \/ parsed.value = None THEN Some("EINVAL")
        ELSE IF <<parsed.value[1].x, parsed.value[1].z>> \in DOMAIN f.links
        THEN Some("EEXIST")
        ELSE None

\* mknod either replies the contract's errno and creates nothing, or links
\* the slot to a fresh ino pair with an empty .nbt and an Unknown(42) .cmp
\* and replies the entry of the file that was named.
MknodContract(f, parent, name, mode, now) ==
    LET out == mknod(f, parent, name, mode, now)
        errno == MknodErrno(f, parent, name, mode)
    IN  IF errno # None THEN out = Done(f, Error(errno[1]))
        ELSE
            LET key == FileKey_parse(name).value[1]
                c == <<key.x, key.z>>
            IN  /\ DOMAIN out.fs.links = (DOMAIN f.links) \cup {c}
                /\ \A k \in DOMAIN f.links : out.fs.links[k] = f.links[k]
                /\ LET pair == out.fs.links[c]
                   IN  /\ pair.chunk_ino # pair.info_ino
                       /\ {pair.chunk_ino, pair.info_ino} \cap (Inos \ {f.ino_alloc})= {}
                       /\ DOMAIN out.fs.inodes
                            = (DOMAIN f.inodes) \cup {pair.chunk_ino, pair.info_ino}
                       /\ \A i \in DOMAIN f.inodes : out.fs.inodes[i] = f.inodes[i]
                       /\ out.fs.inodes[pair.chunk_ino].data
                            = [kind |-> "Chunk", bytes |-> << >>]
                       /\ out.fs.inodes[pair.info_ino].data
                            = [kind |-> "CompressionInfo", ct |-> Unknown(42)]
                       /\ out.reply.tag = "entry"
                       /\ out.reply.attr.ino = InoSet_get(pair, key.kind)

\* C24: mknod(root, name, S_IFREG) on a writable mount with a valid name of
\* an unlinked slot creates both files of the slot under a fresh ino pair,
\* whichever name was given; otherwise it replies the first applicable of
\* EROFS, ENOENT, EPERM, EINVAL, EEXIST and creates nothing.
C24_MknodContract ==
    ~fs.panicked =>
        \A parent \in Parents, name \in FsNames, mode \in Modes, now \in MknodTimes :
            MknodContract(fs, parent, name, mode, now)

(***************************************************************************)
(* Claims about unlinked inodes that are still held                        *)
(***************************************************************************)
\* The inodes of slot c that unlink keeps: the ones with an open handle or
\* with lookups the kernel has not forgotten.
HeldInos(f, c) ==
    {i \in {f.links[c].chunk_ino, f.links[c].info_ino} :
        /\ i \in DOMAIN f.inodes
        /\ (DOMAIN f.inodes[i].open_handles # {} \/ f.inodes[i].nlookup > 0)}

\* In g the held inode i of f is still in the table, unlinked, reported with
\* nlink 0, and every handle open on it reads and writes as it did in f.
StillServed(f, g, i) ==
    /\ i \in DOMAIN g.inodes
    /\ ~g.inodes[i].linked
    /\ stat_ino(g, i)[1].nlink = 0
    /\ g.inodes[i].data = f.inodes[i].data
    /\ g.inodes[i].open_handles = f.inodes[i].open_handles
    /\ \A h \in DOMAIN f.inodes[i].open_handles :
        /\ \A r \in ReadRanges :
            read(g, i, h, r[1], r[2]).reply = read(f, i, h, r[1], r[2]).reply
        /\ \A w \in WriteInputs :
            /\ write(g, i, h, w[1], w[2]).reply = write(f, i, h, w[1], w[2]).reply
            /\ write(g, i, h, w[1], w[2]).fs.inodes[i].data
                 = write(f, i, h, w[1], w[2]).fs.inodes[i].data

\* After mknod of either name of slot c in g, where the inodes old are held
\* unlinked, the slot has two new inodes under inos that are not those of
\* old, lookup of both names resolves to the new ones, and no write through
\* a handle of an old inode changes a new file.
Recreated(g, c, old) ==
    \A kind \in FileKinds, now \in MknodTimes :
        LET mk == mknod(g, FUSE_ROOT_ID, make_fname(kind, c[1], c[2]), S_IFREG + 420, now)
            pair == mk.fs.links[c]
            new == {pair.chunk_ino, pair.info_ino}
        IN  /\ mk.reply.tag = "entry"
            /\ c \in DOMAIN mk.fs.links
            /\ new \cap (old \cup DOMAIN g.inodes) = {}
            /\ new \subseteq DOMAIN mk.fs.inodes
            /\ \A i \in old : mk.fs.inodes[i] = g.inodes[i]
            /\ \A k \in FileKinds :
                LET found == lookup(mk.fs, FUSE_ROOT_ID, make_fname(k, c[1], c[2]))
                IN  /\ found.reply.tag = "entry"
                    /\ found.reply.attr.ino = InoSet_get(pair, k)
                    /\ found.reply.attr.nlink = 1
            /\ \A i \in old :
                \A h \in DOMAIN g.inodes[i].open_handles, w \in WriteInputs :
                    LET wr == write(mk.fs, i, h, w[1], w[2])
                    IN  /\ wr.fs.links = mk.fs.links
                        /\ \A n \in new : wr.fs.inodes[n] = mk.fs.inodes[n]

\* C25: after unlink an inode with an open handle or with nlookup > 0 stays
\* in the table with linked = false (nlink 0) and is read and written through
\* its open handles as before; a following mknod of the same name creates
\* different inodes under new inos, lookup resolves to the new ones, and
\* writes through the old handles never change the new files.
C25_UnlinkedInodesLiveOn ==
    ~fs.panicked =>
        \A c \in DOMAIN fs.links :
            LET un == unlink(fs, FUSE_ROOT_ID, make_fname("Chunk", c[1], c[2]))
                held == HeldInos(fs, c)
            IN  /\ un.reply = Ok
                /\ c \notin DOMAIN un.fs.links
                /\ \A i \in held : StillServed(fs, un.fs, i)
                /\ fs.writable => Recreated(un.fs, c, held)

\* An unlinked inode with an open handle next to the recreated slot.
C25_Witness ==
    /\ last.op = "mknod"
    /\ last.reply.tag = "entry"
    /\ \E i \in DOMAIN fs.inodes :
        /\ ~fs.inodes[i].linked
        /\ DOMAIN fs.inodes[i].open_handles # {}
        /\ <<fs.inodes[i].x, fs.inodes[i].z>> \in DOMAIN fs.links
        /\ i \notin {fs.links[<<fs.inodes[i].x, fs.inodes[i].z>>].chunk_ino,
                     fs.links[<<fs.inodes[i].x, fs.inodes[i].z>>].info_ino}

(***************************************************************************)
(* Claims about directory handles                                          *)
(***************************************************************************)
\* More readdir calls than a listing of the modelled slots ever needs.
MaxListing == 2 + 2 * Cardinality(Coords) + 1

\* What a reader collects that calls readdir from offset on, each time
\* resuming from the offset of the last entry it got, until a reply is
\* empty; room is the number of entries one reply takes.
RECURSIVE Drain(_, _, _, _, _)
Drain(f, fh, offset, room, fuel) ==
    LET got == readdir(f, FUSE_ROOT_ID, fh, offset, room).reply.entries
    IN  IF got = << >> \/ fuel = 0 THEN << >>
        ELSE got \o Drain(f, fh, got[Len(got)][2], room, fuel - 1)

\* The names a listing of f has.
LinkedNames(f) ==
    {<<".">>, <<".", ".">>}
        \cup {make_fname(kind, c[1], c[2]) : kind \in FileKinds, c \in DOMAIN f.links}

\* The adapter states one mknod or unlink after g.
OneChangeLater(g) ==
    {g} \cup {mknod(g, FUSE_ROOT_ID, make_fname(kind, c[1], c[2]), S_IFREG + 420, now).fs :
                kind \in FileKinds, c \in Coords, now \in MknodTimes}
        \cup {unlink(g, FUSE_ROOT_ID, make_fname("Chunk", c[1], c[2])).fs : c \in Coords}

\* Through handle fh the adapter g lists exactly the names, each once, each
\* with its index + 1 as the offset to resume from, and resuming from any
\* of these offsets lists the entries after that one.
ListsExactly(g, fh, names) ==
    \A room \in DirRooms :
        LET all == Drain(g, fh, 0, room, MaxListing)
        IN  /\ Len(all) = Cardinality(names)
            /\ {all[k][4] : k \in 1..Len(all)} = names
            /\ \A k \in 1..Len(all) : all[k][2] = k
            /\ \A k \in 0..Len(all) :
                Drain(g, fh, k, room, MaxListing) = SubSeq(all, k + 1, Len(all))

DirHandleContract(f) ==
    LET od == opendir(f, FUSE_ROOT_ID)
        fh == od.reply.fh
        rd == releasedir(od.fs, FUSE_ROOT_ID, fh)
    IN  /\ od.reply.tag = "opened"
        /\ \A g \in OneChangeLater(od.fs) : ListsExactly(g, fh, LinkedNames(f))
        /\ rd.reply = Ok
        /\ \A offset \in DirOffsets, room \in DirRooms :
            readdir(rd.fs, FUSE_ROOT_ID, fh, offset, room) = Done(rd.fs, Error("EBADF"))
        /\ releasedir(rd.fs, FUSE_ROOT_ID, fh) = Done(rd.fs, Error("EBADF"))

\* No step changes the entries of a directory handle that stays open, and a
\* handle that was handed out and is open no more is never open again.
DirHandlesFrozen ==
    /\ \A h \in DOMAIN fs.dir_handles \cap DOMAIN fs'.dir_handles :
        fs'.dir_handles[h] = fs.dir_handles[h]
    /\ \A h \in 1..fs.fh_alloc :
        h \notin DOMAIN fs.dir_handles => h \notin DOMAIN fs'.dir_handles

\* C26: readdir through a directory handle lists exactly '.', '..' and the
\* .nbt and .cmp names of every slot linked when the handle was opened,
\* whatever mknod and unlink did since; each entry's next-offset is its
\* index + 1, so resuming from any returned offset yields every remaining
\* entry exactly once; after releasedir the handle gives EBADF.
C26_DirHandleSnapshot ==
    /\ [](~fs.panicked => DirHandleContract(fs))
    /\ [][DirHandlesFrozen]_vars

\* A listing was served from a handle opened before the links changed.
C26_Witness ==
    /\ last.op = "readdir"
    /\ last.reply.tag = "directory"
    /\ Len(last.reply.entries) >= 1
    /\ \E h \in DOMAIN fs.dir_handles :
        {fs.dir_handles[h].entries[k][3] : k \in 1..Len(fs.dir_handles[h].entries)}
            # LinkedNames(fs)

(***************************************************************************)
(* Claims about the RegionFile the adapter holds                           *)
(***************************************************************************)
\* C27: no adapter operation changes the RegionFile the adapter holds or
\* serializes it: its headers, chunk_data, occupied_sectors and
\* dirty_sectors are the ones parsed at mount, and the file on disk is the
\* one that was read.
C27_RegionUntouched ==
    /\ [](fs.region = RegionFile_new(file).region)
    /\ [][fs'.region = fs.region /\ file' = file]_vars

\* A chunk was unlinked through the adapter and the region still holds it.
C27_Witness ==
    /\ last.op = "unlink"
    /\ last.reply = Ok
    /\ \E c \in Coords :
        /\ c \notin DOMAIN fs.links
        /\ lookup_chunk(fs.region, c[1], c[2]) # None

(***************************************************************************)
(* Claims about the codec ids a .cmp file can hold                         *)
(***************************************************************************)
\* Selector texts that name a codec id with the top bit set.
ExternalSelectors ==
    {<<"2", "0", "0">>, W_unknown_open \o <<"1", "2", "8", ")">>}

\* C28: no .cmp inode holds Unknown(id) with id >= 128, and a write through
\* a writable handle on a writable mount that selects such a codec is
\* rejected with EINVAL and leaves the adapter as it was.
C28_NoExternalCodec ==
    ~fs.panicked =>
        \A ino \in DOMAIN fs.inodes :
            fs.inodes[ino].data.kind = "CompressionInfo" =>
                /\ fs.inodes[ino].data.ct.tag = "Unknown" => fs.inodes[ino].data.ct.id < 128
                /\ \A h \in DOMAIN fs.inodes[ino].open_handles :
                    (fs.writable /\ can_write(fs.inodes[ino].open_handles[h])) =>
                        \A text \in ExternalSelectors :
                            write(fs, ino, h, 0, as_bytes(text)) = Done(fs, Error("EINVAL"))

(***************************************************************************)
(* allocate_run on its own                                                 *)
(***************************************************************************)
\* Every bitmap of at most n sectors.
Bitmaps(n) == UNION {[1..k -> BOOLEAN] : k \in 0..n}

InitAlloc ==
    /\ arg \in [occupied : Bitmaps(MaxBits), len : 1..MaxRun]
    /\ ret = None
    /\ file = ZeroFile
    /\ region = RegionFile_new(file).region
    /\ last = [op |-> "new"]
    /\ steps = 0
    /\ fs = None
    /\ issued = << >>

AllocateRun ==
    /\ ret = None
    /\ ret' = Some(allocate_run(arg.occupied, arg.len))
    /\ UNCHANGED <<region, file, last, steps, arg, fs, issued>>

NextAlloc == AllocateRun

SpecAlloc == InitAlloc /\ [][NextAlloc]_vars

\* Sector i of the bitmap is free; the sectors behind the bitmap are.
FreeSector(bits, i) == i >= Len(bits) \/ ~bits[i + 1]

\* No sector of [s, s + n) is bits.
RunFits(bits, s, n) == \A i \in s..(s + n - 1) : FreeSector(bits, i)

\* The bitmap with the bits [s, s + n) set and every other bit as it was.
WithRun(bits, s, n) ==
    [i \in 1..(IF s + n > Len(bits) THEN s + n ELSE Len(bits)) |->
        (s < i /\ i <= s + n) \/ (i <= Len(bits) /\ bits[i])]

\* C29: allocate_run(n) returns the lowest start s such that no sector of
\* [s, s + n) is occupied, the sectors at or behind the end of the bitmap
\* counting as free, and exactly the bits [s, s + n) become set.
C29_FirstFit ==
    ret # None =>
        /\ ret[1].addr # None
        /\ LET s == ret[1].addr[1].offset - HEADER_SECTORS
           IN  /\ ret[1].addr[1].len = arg.len
               /\ s >= 0
               /\ RunFits(arg.occupied, s, arg.len)
               /\ \A t \in 0..(s - 1) : ~RunFits(arg.occupied, t, arg.len)
               /\ ret[1].occupied_sectors = WithRun(arg.occupied, s, arg.len)

\* A run was placed in a hole behind a free hole that was too short for it.
C29_Witness ==
    /\ ret # None
    /\ ret[1].addr # None
    /\ LET s == ret[1].addr[1].offset - HEADER_SECTORS
       IN  /\ s + arg.len <= Len(arg.occupied)
           /\ \E t \in 0..(s - 1) : FreeSector(arg.occupied, t)

(***************************************************************************)
(* Claims about the growth of the sector bitmap                            *)
(***************************************************************************)
\* No run of n free sectors lies inside the bitmap.
NoInteriorRun(bits, n) ==
    ~\E s \in 0..(Len(bits) - n) : \A i \in s..(s + n - 1) : ~bits[i + 1]

\* The index where the free sectors at the end of the bitmap begin: its
\* length when the last sector is occupied or there is none.
FreeTail(bits) ==
    LET used == {i \in 1..Len(bits) : bits[i]}
    IN  IF used = {} THEN 0 ELSE CHOOSE m \in used : \A k \in used : k <= m

\* The start of the run allocate_run(n) hands out.
start_of(bits, n) == allocate_run(bits, n).addr[1].offset - HEADER_SECTORS

\* As claimed: without an interior run the allocation starts at the former
\* end and the bitmap grows by the n new sectors, all set.
GrowsAtEnd(bits, n) ==
    NoInteriorRun(bits, n) =>
        /\ allocate_run(bits, n).addr # None
        /\ start_of(bits, n) = Len(bits)
        /\ allocate_run(bits, n).occupied_sectors = resize(bits, Len(bits) + n, TRUE)

\* As coded: without an interior run the allocation starts where the free
\* sectors at the end of the bitmap begin, and the bitmap grows by the
\* shortfall start + n - length, the run's bits all set.
GrowsFromFreeTail(bits, n) ==
    NoInteriorRun(bits, n) =>
        /\ allocate_run(bits, n).addr # None
        /\ start_of(bits, n) = FreeTail(bits)
        /\ Len(allocate_run(bits, n).occupied_sectors) = FreeTail(bits) + n
        /\ allocate_run(bits, n).occupied_sectors = WithRun(bits, FreeTail(bits), n)

\* Neither the free nor the allocation of a write_chunk or delete_chunk
\* step makes the bitmap shorter.
NeverShrinks ==
    last'.op \in {"write_chunk", "delete_chunk"} =>
        /\ Len(free_chunk(region, last'.x, last'.z).occupied_sectors)
             = Len(region.occupied_sectors)
        /\ Len(region'.occupied_sectors) >= Len(region.occupied_sectors)

\* C30 (as claimed): when no run of n free sectors lies inside the bitmap,
\* allocate_run places the run at the former end of the bitmap, which grows
\* by the new sectors, all set; the bitmap never shrinks on allocation or
\* free.
C30_GrowsAtFormerEnd ==
    /\ [](\A n \in 1..MaxRun : GrowsAtEnd(region.occupied_sectors, n))
    /\ [][NeverShrinks]_vars

\* C30 (as coded): when no run of n free sectors lies inside the bitmap,
\* allocate_run places the run where the free sectors at the end of the
\* bitmap begin, which is the former end when the last sector is occupied,
\* and the bitmap grows by exactly the shortfall with every new bit set;
\* the bitmap never shrinks on allocation or free.
C30_GrowsFromFreeTail ==
    /\ [](\A n \in 1..MaxRun : GrowsFromFreeTail(region.occupied_sectors, n))
    /\ [][NeverShrinks]_vars

\* The last chunk was deleted, the bitmap kept its length, and a run of two
\* sectors now starts on the freed sector and grows the bitmap by one.
C30_Witness ==
    /\ last.op = "delete_chunk"
    /\ Len(region.occupied_sectors) >= 2
    /\ ~region.occupied_sectors[Len(region.occupied_sectors)]
    /\ NoInteriorRun(region.occupied_sectors, 2)
    /\ start_of(region.occupied_sectors, 2) = Len(region.occupied_sectors) - 1
    /\ Len(allocate_run(region.occupied_sectors, 2).occupied_sectors)
         = Len(region.occupied_sectors) + 1

(***************************************************************************)
(* The region engine next to the sector ceiling                            *)
(***************************************************************************)
\* The 4-byte location entry of a run.
Located(offset, len) ==
    <<(offset \div (2 ^ 16)) % 256, (offset \div (2 ^ 8)) % 256, offset % 256, len>>

\* A stored chunk of two payload bytes in a run of len sectors.
RunOf(len) == <<0, 0, 0, 3, 2, 170, 187>> \o Zeros(len * SECTOR_LEN - 7)

\* A file whose slot (0, 0) has the run of sectors 2..256 and whose slot
\* (3, 5) has the len1 sectors behind it.
TwoRuns(len1) ==
    [locations |->
        [idx \in Slots |->
            IF idx = coords_to_idx(0, 0) THEN Located(2, 255)
            ELSE Located(257, len1)],
     timestamps |-> [idx \in Slots |-> be_bytes(1600000000)],
     payload |-> RunOf(255) \o RunOf(len1)]

\* Files that end on, or up to three sectors short of, the ceiling.
CeilingFiles == {TwoRuns(Min(255, MAX_SECTORS - 255 - k)) : k \in 0..3}

\* Chunks of one sector, of two sectors and of the longest run.
CeilingPayloads ==
    { [data |-> <<1>>, ct |-> Zlib],
      [data |-> Bytes(SECTOR_LEN), ct |-> GZip],
      [data |-> Zeros(MAX_CHUNK_LEN - 1), ct |-> NoCompression] }

InitCeiling ==
    /\ file \in CeilingFiles
    /\ region = RegionFile_new(file).region
    /\ last = [op |-> "new"]
    /\ steps = 0
    /\ fs = None
    /\ issued = << >>
    /\ arg = None
    /\ ret = None

WriteAtCeiling ==
    /\ steps < MaxCeilingSteps
    /\ \E c \in Coords, p \in CeilingPayloads, t \in DeleteTimes :
        /\ region' = write_chunk(region, c[1], c[2], p.data, p.ct, t)
        /\ last' = [op |-> "write_chunk", x |-> c[1], z |-> c[2],
                    data |-> p.data, ct |-> p.ct, mtime |-> t]
    /\ steps' = steps + 1
    /\ UNCHANGED <<file, arg, ret, fs, issued>>

DeleteAtCeiling ==
    /\ steps < MaxCeilingSteps
    /\ \E c \in Coords, t \in DeleteTimes :
        /\ region' = delete_chunk(region, c[1], c[2], t)
        /\ last' = [op |-> "delete_chunk", x |-> c[1], z |-> c[2], now |-> t]
    /\ steps' = steps + 1
    /\ UNCHANGED <<file, arg, ret, fs, issued>>

WriteOutAtCeiling ==
    /\ steps < MaxCeilingSteps
    /\ \E full_write \in BOOLEAN :
        LET out == write_out(region, file, full_write)
        IN  /\ region' = out.region
            /\ file' = out.file
            /\ last' = [op |-> "write_out", full_write |-> full_write]
    /\ steps' = steps + 1
    /\ UNCHANGED <<arg, ret, fs, issued>>

NextCeiling == WriteAtCeiling \/ DeleteAtCeiling \/ WriteOutAtCeiling

SpecCeiling == InitCeiling /\ [][NextCeiling]_vars

\* The run lengths asked of allocate_run: short runs and the longest.
CeilingRuns == (1..MaxRun) \cup {255}

\* The lowest start of a run of n free sectors, the sectors behind the
\* bitmap counting as free.
FirstFit(bits, n) ==
    CHOOSE s \in 0..Len(bits) :
        /\ RunFits(bits, s, n)
        /\ \A t \in 0..(s - 1) : ~RunFits(bits, t, n)

\* allocate_run(n) fails iff the start it chooses has start + n >=
\* MAX_SECTORS, and then leaves the bitmap as it was.
FailsAtCeiling(bits, n) ==
    LET out == allocate_run(bits, n)
    IN  /\ out.addr = None <=> FirstFit(bits, n) + n >= MAX_SECTORS
        /\ out.addr = None => out.occupied_sectors = bits
        /\ out.addr # None => out.addr[1].offset = FirstFit(bits, n) + HEADER_SECTORS

\* A write_chunk step whose allocation fails does what free_chunk does and
\* no more: the slot written is empty, every other header, chunk_data and
\* dirty_sectors are as before.
FailedWriteDropsChunk ==
    (last'.op = "write_chunk" /\ Len(last'.data) < MAX_CHUNK_LEN) =>
        LET freed == free_chunk(region, last'.x, last'.z)
            n == div_ceil(Len(last'.data) + ChunkInternalMeta_LEN, SECTOR_LEN)
            idx == coords_to_idx(last'.x, last'.z)
        IN  allocate_run(freed.occupied_sectors, n).addr = None =>
                /\ ~valid(region'.headers[idx])
                /\ \A i \in Slots \ {idx} : region'.headers[i] = region.headers[i]
                /\ region'.headers[idx].mtime = region.headers[idx].mtime
                /\ region'.chunk_data = region.chunk_data
                /\ region'.dirty_sectors = region.dirty_sectors
                /\ region'.occupied_sectors = freed.occupied_sectors

\* C31: allocate_run(n) fails iff its chosen start has start + n >=
\* MAX_SECTORS; a failed allocation changes nothing, and the write_chunk
\* that asked for the run leaves its slot empty and every other slot, the
\* payload bytes and the dirty bits unchanged.
C31_ExhaustionDropsChunk ==
    /\ [](\A n \in CeilingRuns : FailsAtCeiling(region.occupied_sectors, n))
    /\ [][FailedWriteDropsChunk]_vars

\* A write was dropped for lack of sectors: its slot is empty and the run
\* it needs still does not fit under the ceiling.
C31_Witness ==
    /\ last.op = "write_chunk"
    /\ Len(last.data) < MAX_CHUNK_LEN
    /\ ~valid(region.headers[coords_to_idx(last.x, last.z)])
    /\ allocate_run(region.occupied_sectors,
                    div_ceil(Len(last.data) + ChunkInternalMeta_LEN, SECTOR_LEN)).addr = None

(***************************************************************************)
(* Claims about the location entries write_out stores                      *)
(***************************************************************************)
\* The (offset, len) RegionFile::new reads from a 4-byte location entry.
DecodedLocation(entry) ==
    LET pos_info == read_big_endian(entry, 0)
    IN  [offset |-> (pos_info \div (2 ^ 8)) % (2 ^ OFFSET_BITS), len |-> pos_info % 256]

\* The address a write_chunk step stores is inside the fields' ranges.
StoredAddressInRange ==
    last'.op = "write_chunk" =>
        LET header == region'.headers[coords_to_idx(last'.x, last'.z)]
        IN  valid(header) =>
                /\ 2 <= header.address[1].offset
                /\ header.address[1].offset <= (2 ^ OFFSET_BITS) - 3
                /\ 1 <= header.address[1].len
                /\ header.address[1].len <= 255

\* The location entry write_out stores for a valid header decodes to the
\* header's address.
LocationsDecodeBack ==
    \A full_write \in BOOLEAN :
        \A idx \in Slots :
            valid(region.headers[idx]) =>
                DecodedLocation(write_out(region, file, full_write).file.locations[idx])
                    = region.headers[idx].address[1]

\* C32: every address write_chunk stores has 2 <= offset <= 2^24 - 3 (the
\* field being OFFSET_BITS wide: 2^OFFSET_BITS - 3) and 1 <= len <= 255, and
\* the location entry write_out writes for it decodes back to the same
\* offset and len.
C32_LocationsFitTheirFields ==
    /\ [](LocationsDecodeBack)
    /\ [][StoredAddressInRange]_vars

\* Written by a write_chunk step of this behaviour, not parsed.
StoredByWrite(header) ==
    valid(header) /\ \E t \in DeleteTimes : header.mtime = t.secs

\* A chunk of the longest run and a chunk whose offset needs the second
\* byte of the field were stored and their location entries written out.
C32_Witness ==
    /\ last.op = "write_out"
    /\ \E idx \in Slots :
        /\ StoredByWrite(region.headers[idx])
        /\ region.headers[idx].address[1].len = 255
        /\ DecodedLocation(file.locations[idx]) = region.headers[idx].address[1]
    /\ \E idx \in Slots :
        /\ StoredByWrite(region.headers[idx])
        /\ region.headers[idx].address[1].offset >= 2 ^ 8
        /\ DecodedLocation(file.locations[idx]) = region.headers[idx].address[1]

(***************************************************************************)
(* write_out with an I/O call that fails                                   *)
(***************************************************************************)
\* The first n elements of S in ascending order.
FirstOf(S, n) == {k \in S : Cardinality({j \in S : j < k}) < n}

\* The I/O calls of write_out in program order: set_len, the seek to 0, the
\* write_all of each location entry, of each timestamp entry, of each
\* sector, and set_modified / flush / sync_all.
StageRank ==
    [set_len |-> 0, seek |-> 1, locations |-> 2, timestamps |-> 3, sectors |-> 4, sync |-> 5]

\* Where a write_out of r can fail: the stage and the number of entries or
\* sectors of the stage written before the failing call.
FailPoints(r, full_write) ==
    {[stage |-> st, done |-> 0] : st \in {"set_len", "seek", "sync"}}
        \cup {[stage |-> st, done |-> k] :
                st \in {"locations", "timestamps"}, k \in 0..(Cardinality(Slots) - 1)}
        \cup {[stage |-> "sectors", done |-> k] :
                k \in 0..(Cardinality(sector_idx_iter(r, full_write, max_occupied_end(r))) - 1)}

\* write_out returning the error of the I/O call at `fail`: [region, file].
\* The `?` returns before dirty_sectors.fill(false); the calls before the
\* failing one have taken effect on the file.
write_out_failing(r, f, full_write, fail) ==
    LET sector_count == max_occupied_end(r)
        rank == StageRank[fail.stage]
        sized == IF rank = 0 THEN f.payload
                 ELSE resize(f.payload, sector_count * SECTOR_LEN, 0)
        written == write_out(r, f, full_write).file
        located == IF rank > 2 THEN Slots
                   ELSE IF rank = 2 THEN FirstOf(Slots, fail.done) ELSE {}
        stamped == IF rank > 3 THEN Slots
                   ELSE IF rank = 3 THEN FirstOf(Slots, fail.done) ELSE {}
        all == sector_idx_iter(r, full_write, sector_count)
        sectors == IF rank > 4 THEN all
                   ELSE IF rank = 4 THEN FirstOf(all, fail.done) ELSE {}
    IN  [region |-> r,
         file |-> [locations |-> [idx \in Slots |->
                        IF idx \in located THEN written.locations[idx]
                        ELSE f.locations[idx]],
                   timestamps |-> [idx \in Slots |->
                        IF idx \in stamped THEN written.timestamps[idx]
                        ELSE f.timestamps[idx]],
                   payload |-> [i \in 1..Len(sized) |->
                        IF ((i - 1) \div SECTOR_LEN) \in sectors THEN r.chunk_data[i]
                        ELSE sized[i]]]]

WriteOutFails ==
    /\ steps < MaxSteps
    /\ \E full_write \in BOOLEAN :
        \E fail \in FailPoints(region, full_write) :
            LET out == write_out_failing(region, file, full_write, fail)
            IN  /\ region' = out.region
                /\ file' = out.file
                /\ last' = [op |-> "write_out_failed", full_write |-> full_write]
    /\ steps' = steps + 1
    /\ UNCHANGED <<arg, ret, fs, issued>>

NextIO == WriteChunk \/ DeleteChunk \/ WriteOut \/ WriteOutFails

SpecIO == InitRegion /\ [][NextIO]_vars

\* Sector i of a byte vector.
SectorOf(bytes, i) == SubSeq(bytes, i * SECTOR_LEN + 1, (i + 1) * SECTOR_LEN)

\* A write_out(full_write = false) step leaves the file max_occupied_end
\* sectors long, with the sectors that were dirty and below max_occupied_end
\* taken from chunk_data and every other sector as it was in the file (zero
\* where the file was shorter), and clears every dirty bit.
IncrementalWritesDirty ==
    (last'.op = "write_out" /\ ~last'.full_write) =>
        LET count == max_occupied_end(region)
            before == resize(file.payload, count * SECTOR_LEN, 0)
        IN  /\ Len(file'.payload) = count * SECTOR_LEN
            /\ \A i \in 0..(count - 1) :
                SectorOf(file'.payload, i) =
                    IF i < Len(region.dirty_sectors) /\ region.dirty_sectors[i + 1]
                    THEN SectorOf(region.chunk_data, i)
                    ELSE SectorOf(before, i)
            /\ region'.dirty_sectors = false_bitvec(Len(region.dirty_sectors))

\* A write_out step that returns an I/O error leaves the region, and so
\* its dirty bits, as before; one that succeeds leaves every dirty bit clear.
DirtyBitsFollowResult ==
    /\ last'.op = "write_out_failed" => region' = region
    /\ last'.op = "write_out" =>
        /\ \A i \in 1..Len(region'.dirty_sectors) : ~region'.dirty_sectors[i]
        /\ [region' EXCEPT !.dirty_sectors = region.dirty_sectors] = region

\* C33: write_out(full_write = false) writes exactly the payload sectors
\* whose dirty bit is set and whose index is below max_occupied_end; after a
\* successful write_out every dirty bit is clear, and after a write_out
\* that returned an I/O error the dirty bits are as before.
C33_IncrementalWriteOut ==
    [][IncrementalWritesDirty /\ DirtyBitsFollowResult]_vars

\* An incremental write_out succeeded: the file has the sectors of
\* chunk_data and the dirty bits are clear.
C33_Witness ==
    /\ last.op = "write_out"
    /\ ~last.full_write
    /\ Len(region.dirty_sectors) > 0
    /\ \A i \in 1..Len(region.dirty_sectors) : ~region.dirty_sectors[i]
    /\ file.payload = SubSeq(region.chunk_data, 1, Len(file.payload))
    /\ Len(file.payload) > 0

(***************************************************************************)
(* Incremental and full write_out                                          *)
(***************************************************************************)
\* Sector i is inside the run of a valid header.
Covered(r, i) ==
    \E idx \in Slots :
        /\ valid(r.headers[idx])
        /\ r.headers[idx].address[1].offset - HEADER_SECTORS <= i
        /\ i < r.headers[idx].address[1].offset + r.headers[idx].address[1].len
                - HEADER_SECTORS

\* C34: from a file that is the parsed input or the result of an earlier
\* write_out, after any write_chunk and delete_chunk calls,
\* write_out(full_write = false) leaves the file as long as
\* write_out(full_write = true) would, with the same location and timestamp
\* tables and the same bytes in every sector a valid header covers.
C34_IncrementalEqualsFull ==
    LET inc == write_out(region, file, FALSE).file
        full == write_out(region, file, TRUE).file
    IN  /\ Len(inc.payload) = Len(full.payload)
        /\ inc.locations = full.locations
        /\ inc.timestamps = full.timestamps
        /\ \A i \in 0..(max_occupied_end(region) - 1) :
            Covered(region, i) => SectorOf(inc.payload, i) = SectorOf(full.payload, i)

\* After a write the file lacks a dirty covered sector's bytes while the
\* sector of another chunk is clean and already in the file.
C34_Witness ==
    /\ last.op = "write_chunk"
    /\ \E i, j \in 0..(max_occupied_end(region) - 1) :
        /\ Covered(region, i)
        /\ region.dirty_sectors[i + 1]
        /\ (i + 1) * SECTOR_LEN <= Len(file.payload)
        /\ SectorOf(file.payload, i) # SectorOf(region.chunk_data, i)
        /\ Covered(region, j)
        /\ ~region.dirty_sectors[j + 1]

(***************************************************************************)
(* Claims about the runs RegionFile::new accepts                           *)
(***************************************************************************)
\* C35: in the region RegionFile::new builds from an accepted input no
\* payload sector is covered by two valid headers, and so a delete_chunk or
\* write_chunk of one parsed chunk leaves the sectors of every other valid
\* header occupied and their bytes as they were.
C35_ParsedRunsDisjoint ==
    /\ [](last.op = "new" =>
            \A i \in 0..(Len(region.occupied_sectors) - 1) :
                Cardinality(claimants(region, i)) <= 1)
    /\ [][(steps = 0 /\ last'.op \in {"delete_chunk", "write_chunk"}) =>
            \A idx \in Slots \ {coords_to_idx(last'.x, last'.z)} :
                valid(region.headers[idx]) =>
                    \A i \in (region.headers[idx].address[1].offset - HEADER_SECTORS)
                              ..(region.headers[idx].address[1].offset
                                  + region.headers[idx].address[1].len
                                  - HEADER_SECTORS - 1) :
                        /\ region'.occupied_sectors[i + 1]
                        /\ SectorOf(region'.chunk_data, i) = SectorOf(region.chunk_data, i)]_vars

(***************************************************************************)
(* Claims about the ino pairs                                              *)
(***************************************************************************)
\* Every pair handed out has an even chunk_ino of at least `least` and
\* info_ino = chunk_ino + 1, every later pair is above every earlier one, and
\* the counter is above every pair.
AlignedPairs(least) ==
    /\ \A n \in 1..Len(issued) :
        /\ issued[n].chunk_ino % 2 = 0
        /\ issued[n].chunk_ino >= least
        /\ issued[n].info_ino = issued[n].chunk_ino + 1
        /\ \A m \in 1..(n - 1) : issued[m].info_ino < issued[n].chunk_ino
        /\ issued[n].info_ino < fs.ino_alloc

\* A step that hands out a pair hands out the counter rounded up to even and
\* advances the counter by 2 from there; every other step leaves it.
CounterAdvancesByTwo ==
    IF Len(issued') > Len(issued)
    THEN /\ Len(issued') = Len(issued) + 1
         /\ issued'[Len(issued')].chunk_ino = ((fs.ino_alloc + 1) \div 2) * 2
         /\ fs'.ino_alloc = issued'[Len(issued')].chunk_ino + 2
    ELSE fs'.ino_alloc = fs.ino_alloc

\* C36 (as claimed): every pair has an even chunk_ino >= FUSE_ROOT_ID + 2 and
\* info_ino = chunk_ino + 1, and the counter advances by 2, so each later
\* pair is above every earlier one.
C36_AlignedPairsAboveRoot ==
    /\ [](AlignedPairs(FUSE_ROOT_ID + 2))
    /\ [][CounterAdvancesByTwo]_vars

\* C36 (as coded): every pair has an even chunk_ino >= FUSE_ROOT_ID + 1 (the
\* first pair is the counter's initial value FUSE_ROOT_ID + 1 = 2 and its
\* successor) and info_ino = chunk_ino + 1, and the counter advances by 2,
\* so each later pair is above every earlier one.
C36_AlignedPairs ==
    /\ [](AlignedPairs(FUSE_ROOT_ID + 1))
    /\ [][CounterAdvancesByTwo]_vars

\* Two mknod calls after a mount with one chunk: three pairs are out.
C36_Witness ==
    /\ last.op = "mknod"
    /\ last.reply.tag = "entry"
    /\ Len(issued) >= 3
    /\ issued[1].chunk_ino = FUSE_ROOT_ID + 1

(***************************************************************************)
(* GuardedFile (util.rs)                                                   *)
(***************************************************************************)
\* The state of this specification: file is the backing file's metadata
\* [mtime], fs the guard [known_mtime], arg the system clock and what was
\* done to the file since the guard last observed it
\* [now, external, own], ret the pair the last get_mut returned.  Times are
\* instants of the one system clock.

\* GuardedFile::new: known_mtime is the file's mtime at open.
GuardedFile_new(f) == [known_mtime |-> f.mtime]

\* GuardedFile::get_mut at time now: the guard afterwards and `changed`.
\* metadata_ok is whether file.metadata() and modified() succeed.
get_mut(g, f, now, metadata_ok) ==
    LET mtime == IF metadata_ok THEN f.mtime ELSE now
    IN  [guard |-> [g EXCEPT !.known_mtime = now],
         changed |-> mtime > g.known_mtime]

\* file.set_modified(SystemTime::now()) at the end of write_out.
set_modified(f, now) == [f EXCEPT !.mtime = now]

InitGuard ==
    /\ \E opened \in 1..2, mtime \in 0..2 :
        /\ mtime <= opened
        /\ file = [mtime |-> mtime]
        /\ arg = [now |-> opened, external |-> FALSE, own |-> FALSE]
    /\ fs = GuardedFile_new(file)
    /\ ret = None
    /\ last = [op |-> "new"]
    /\ region = None
    /\ steps = 0
    /\ issued = << >>

\* The clock moves on.
Tick ==
    /\ arg.now < MaxClock
    /\ arg' = [arg EXCEPT !.now = @ + 1]
    /\ UNCHANGED <<region, file, last, steps, ret, fs, issued>>

\* Another process writes to the file: the kernel stamps it with the time.
ExternalWrite ==
    /\ file' = [file EXCEPT !.mtime = arg.now]
    /\ arg' = [arg EXCEPT !.external = TRUE]
    /\ last' = [op |-> "external_write"]
    /\ UNCHANGED <<region, steps, ret, fs, issued>>

\* This process writes the region out through the handle get_mut returned.
OwnWrite ==
    /\ ret # None
    /\ file' = set_modified(file, arg.now)
    /\ arg' = [arg EXCEPT !.own = TRUE]
    /\ last' = [op |-> "write_out"]
    /\ UNCHANGED <<region, steps, ret, fs, issued>>

GetMut ==
    /\ \E metadata_ok \in BOOLEAN :
        LET out == get_mut(fs, file, arg.now, metadata_ok)
        IN  /\ fs' = out.guard
            /\ ret' = Some([changed |-> out.changed])
            /\ last' = [op |-> "get_mut", external |-> arg.external, own |-> arg.own,
                        metadata_ok |-> metadata_ok]
    /\ arg' = [arg EXCEPT !.external = FALSE, !.own = FALSE]
    /\ UNCHANGED <<region, file, steps, issued>>

NextGuard == Tick \/ ExternalWrite \/ OwnWrite \/ GetMut

SpecGuard == InitGuard /\ [][NextGuard]_vars

\* C37: get_mut returns changed = true exactly when another process has
\* modified the file since the guard last observed it (at open or at the
\* previous get_mut): a write of this process through the handle is not
\* reported, an external modification is always reported.
C37_ChangedIffExternal ==
    last.op = "get_mut" => (ret[1].changed <=> last.external)

====
